---- MODULE Spec2Model ----
(***************************************************************************)
(* Message dispatch and handler lifecycle of whatslang.                    *)
(*                                                                         *)
(*   Spec        the core worker, BotBase.run (src/core/bot_base.py), one  *)
(*               worker per handler on one conversation, over the sqlite   *)
(*               ledger MessageDatabase (src/core/database.py)             *)
(*   SpecFair    Spec with weak fairness on the steps of each worker       *)
(*   SpecLedger  the ledger operations is_processed / mark_processed       *)
(*               called directly, in any order, by several callers         *)
(*   SpecChain   the backend MessageProcessor                              *)
(*               (src/backend/app/core/message_processor.py)               *)
(*   SpecLifecycle  the api BotManager (src/api/bot_manager.py): start and *)
(*               stop of workers, shutdown, restart of the process         *)
(*   SpecSplit   the chunker BotBase.split_message, one call on a text,    *)
(*               a prefix and a limit, turn by turn of its loop            *)
(*   SpecSched   the backend MessageScheduler and the schedule API         *)
(*               (src/backend/app/core/scheduler.py, api/schedules.py)     *)
(*   SpecThreads the threads BotManager.start_bot starts for two handlers  *)
(*               of one conversation, each in BotBase.run                  *)
(*   SpecTranscribe  one call of LLMService.transcribe_audio               *)
(*               (src/core/llm_service.py), attempt by attempt             *)
(***************************************************************************)
EXTENDS Integers, Sequences, FiniteSets, Bags, TLC

(* ------------------------------ bounds --------------------------------- *)
\* messages that ever arrive in the conversation
MaxMsgs == 3
\* polls one worker performs
MaxTicks == 3
\* chunks split_message cuts one response into
MaxChunks == 2
\* message ids the direct callers of the ledger use
MaxLedgerIds == 2
\* bots assigned to the conversation of the backend processor
MaxBots == 2
\* messages that ever arrive in the backend conversation
MaxMpMsgs == 2
\* polls the backend processor performs
MaxMpPolls == 2
\* threads per key that outlive their stop_bot (lifecycle manager)
MaxLeft == 1
\* clock readings after the first (lifecycle manager)
MaxClock == 1
\* starts of the api process
MaxBoots == 2
\* characters of the enumerated texts given to split_message
MaxTextLen == 4
\* max_content_length of the largest enumerated limit
MaxRoom == 3
\* chunks the longest text given to split_message is cut into
ManyChunks == 1000
\* the last tick of the scheduler's clock
MaxSchedClock == 2
\* starts of the backend application
MaxSchedBoots == 2
\* messages that arrive in the conversation the two threads watch
MaxThreadMsgs == 2

(* ------------------------- program constants --------------------------- *)
\* get_messages(self.chat_jid, limit=20)
Limit == 20

\* JokeBot.NAME / TranslationBot.NAME
Handlers == {"translation"}

\* the shapes of an inbound gateway message that should_process_message
\* tells apart: ordinary text, no content, text with a "[...]" prefix
Contents == {"hello", "", "[ai] hola"}

VARIABLES
    chat,                \* the conversation at the gateway, oldest first
    processed_messages,  \* the ledger table, a bag of rows
    pc,                  \* pc[h]: where worker h is in BotBase.run
    is_first_run,        \* BotBase.is_first_run
    should_exit,         \* BotBase.should_exit
    messages,            \* run(): the rest of the list the for loop walks
    fetched,             \* run(): what get_messages returned this tick
    cur,                 \* handle_message(): message, chunk count, chunk index
    tick,                \* polls worker h has made
    invoked,             \* invoked[h][id]: calls of process_message
    sends,               \* sends[h][id]: the send_message calls of the latest
                         \* handle_message on id, in order
    handled,             \* ids handle_message was called on in this tick
    message_count,       \* chats.message_count
    tick_error,          \* tick_error[h]: the latest tick of worker h that
                         \* ended in run()'s `except Exception`, 0 if none
    ledger_call,         \* the latest direct call of a ledger operation
    ledger_marked,       \* keys mark_processed was called with so far
    chat_bots,           \* ChatBot rows of the conversation: enabled, priority
    mp_chat,             \* the backend conversation at the gateway
    mp_table,            \* committed ProcessedMessage rows
    mp_pending,          \* rows flushed in the open session, not committed
    mp_broken,           \* the session needs a rollback (a flush failed)
    mp_pc,               \* where MessageProcessor is
    mp_is_first_run,     \* MessageProcessor.is_first_run
    mp_messages,         \* _poll_chat_messages(): rest of the list walked
    mp_cur,              \* _process_message(): message_id
    mp_chain,            \* _process_message(): rest of bot_assignments
    mp_events,           \* per bot of the chain: what happened, in order
    mp_polls,            \* polls made
    mp_routed,           \* ids that went to the bots at least once
    mp_quiet,            \* ids whose first routing sent no response
    bots,                \* BotManager.bots: the keys with a live worker
    bot_threads,         \* BotManager.bot_threads, its keys
    bot_start_times,     \* BotManager.bot_start_times
    bot_log_handlers,    \* BotManager.bot_log_handlers, its keys
    bot_classes,         \* BotManager.bot_classes, its keys
    chats,               \* the chats table, its chat_jid column
    running,             \* bot_chat_assignments.running per key
    left_threads,        \* left_threads[key]: threads stop_bot forgot that
                         \* are still inside BotBase.run
    now,                 \* the clock
    lm_phase,            \* the api process: "down", "up", "stopping"
    lm_boots,            \* starts of the api process
    lm_call,             \* the latest call of the lifecycle manager
    split_call,          \* the latest call of split_message and its result
    sc_jobs,             \* the scheduled_messages table, by id
    sc_timers,           \* the jobs of the timer engine and its job store
    sc_up,               \* MessageScheduler.scheduler is set
    sc_boots,            \* starts of the backend application
    sc_now,              \* the clock of the scheduler
    sc_gateway,          \* send_message calls of send_scheduled_message
    sc_call,             \* the latest request to the schedule API
    th_chat,             \* messages in the conversation of the two threads
    th_ledger,           \* processed_messages as (message_id, bot_name)
    th_run,              \* th_run[b]: the thread of handler b in run()
    th_delivered,        \* complete responses sent per (id, handler): 0, 1,
                         \* 2 for more than one
    tr_call              \* the latest call of transcribe_audio

core_vars == <<chat, processed_messages, pc, is_first_run, should_exit,
               messages, fetched, cur, tick, invoked, sends, handled,
               message_count>>

ledger_vars == <<ledger_call, ledger_marked>>

chain_vars == <<chat_bots, mp_chat, mp_table, mp_pending, mp_broken, mp_pc,
                mp_is_first_run, mp_messages, mp_cur, mp_chain, mp_events,
                mp_polls>>

chain_hist == <<mp_routed, mp_quiet>>

core_hist == <<tick_error>>

vars == <<core_vars, core_hist, ledger_vars, chain_vars, chain_hist,
          bots, bot_threads, bot_start_times, bot_log_handlers, bot_classes,
          chats, running, left_threads, now, lm_phase, lm_boots, lm_call,
          split_call, sc_jobs, sc_timers, sc_up, sc_boots, sc_now,
          sc_gateway, sc_call, th_chat, th_ledger, th_run, th_delivered,
          tr_call>>

\* the two threads of the shared conversation are left alone
NoThreads == UNCHANGED <<th_chat, th_ledger, th_run, th_delivered>>

\* no call of transcribe_audio is recorded
NoTranscribe == UNCHANGED tr_call

\* the scheduler, its table and its API are left alone
NoSched ==
    UNCHANGED <<sc_jobs, sc_timers, sc_up, sc_boots, sc_now, sc_gateway,
                sc_call>>

\* no call of the chunker is recorded
NoSplit == UNCHANGED split_call

\* the state of the api process and of its tables
NoLifecycle ==
    UNCHANGED <<bots, bot_threads, bot_start_times, bot_log_handlers,
                bot_classes, chats, running, left_threads, now, lm_phase,
                lm_boots, lm_call>>

\* the worker threads touch neither the direct callers' bookkeeping nor the
\* backend processor
CoreOnly ==
    /\ NoLifecycle /\ NoSplit /\ NoSched /\ NoThreads /\ NoTranscribe
    /\ UNCHANGED <<ledger_vars, chain_vars, chain_hist>>

\* the step does not pass through run()'s `except Exception`
NoTickError == UNCHANGED core_hist

MsgIds == 1..(MaxMsgs + 1)

NoCur == [id |-> 0, n |-> 0, i |-> 0]

(* ------------------------------ ledger --------------------------------- *)
\* the lookup, were it to ask WHERE message_id = ? only
is_processed_any_bot(table, message_id, bot_name) ==
    \E r \in BagToSet(table) : r.message_id = message_id

\* SELECT 1 FROM processed_messages WHERE message_id = ? AND bot_name = ?
is_processed(table, message_id, bot_name) ==
    \E r \in BagToSet(table) :
        r.message_id = message_id /\ r.bot_name = bot_name

\* a plain INSERT into a table without the PRIMARY KEY constraint
mark_processed_no_pk(table, row) ==
    [table |-> table (+) SetToBag({row}), raised |-> FALSE]

\* INSERT INTO processed_messages ...: PRIMARY KEY (message_id, bot_name)
\* rejects a second row for the key with sqlite3.IntegrityError
mark_processed(table, row) ==
    IF is_processed(table, row.message_id, row.bot_name)
    THEN [table |-> table, raised |-> TRUE]
    ELSE [table |-> table (+) SetToBag({row}), raised |-> FALSE]

Row(message_id, bot_name, response_text, metadata, at) ==
    [message_id |-> message_id, bot_name |-> bot_name,
     response_text |-> response_text, metadata |-> metadata,
     processed_at |-> at]

(* ------------------------------ gateway -------------------------------- *)
Reverse(s) == [i \in 1..Len(s) |-> s[Len(s) + 1 - i]]

\* the `limit` most recent messages of the conversation, oldest first
Window(c) ==
    IF Len(c) <= Limit THEN c ELSE SubSeq(c, Len(c) - Limit + 1, Len(c))

\* WhatsAppClient.get_messages: the window newest first or oldest first (the
\* code only supposes "newest first"), or [] (empty conversation, unexpected
\* body, or every retry failed)
get_messages(c) == {<<>>, Reverse(Window(c)), Window(c)}

NewestFirst(s) == \A i \in 1..(Len(s) - 1) : s[i].id > s[i + 1].id

Ascending(ids) == \A i \in 1..(Len(ids) - 1) : ids[i] < ids[i + 1]

Ids(s) == {s[i].id : i \in 1..Len(s)}

Range(s) == {s[i] : i \in 1..Len(s)}

(* --------------------------- BotBase.run -------------------------------- *)
\* msg_text.startswith("[") and "]" in msg_text[:20]
HasBotPrefix(content) == content = "[ai] hola"

should_process_message_no_ledger(h, m) ==
    /\ m.content # ""
    /\ ~HasBotPrefix(m.content)

\* BotBase.should_process_message
should_process_message(h, m) ==
    /\ ~is_processed(processed_messages, m.id, h)
    /\ m.content # ""
    /\ ~HasBotPrefix(m.content)

\* run(), is_first_run branch, were it to stop after the first message
FirstRunMarkHeadOnly(table, ms, h, at) ==
    IF ms = <<>> \/ is_processed(table, Head(ms).id, h)
    THEN [table |-> table, raised |-> FALSE]
    ELSE mark_processed(table,
             Row(Head(ms).id, h, "[skipped - startup]", "startup", at))

RECURSIVE FirstRunMark(_, _, _, _)
\* run(), is_first_run branch: mark every fetched message not yet in the
\* ledger as "[skipped - startup]"; an exception leaves the loop
FirstRunMark(table, ms, h, at) ==
    IF ms = <<>> THEN [table |-> table, raised |-> FALSE]
    ELSE IF is_processed(table, Head(ms).id, h)
         THEN FirstRunMark(table, Tail(ms), h, at)
         ELSE LET r == mark_processed(table,
                          Row(Head(ms).id, h, "[skipped - startup]",
                              "startup", at))
              IN  IF r.raised THEN r
                  ELSE FirstRunMark(r.table, Tail(ms), h, at)

(* ===================== the ledger, called directly ====================== *)
LedgerIds == 1..MaxLedgerIds

\* JokeBot.NAME, TranslationBot.NAME
LedgerBots == {"joke", "translation"}

\* threads that share the sqlite file; every call opens its own connection
\* and commits its one statement
Callers == {"worker1", "worker2"}

NoCall == [op |-> "none", caller |-> "", message_id |-> 0, bot_name |-> "",
           result |-> FALSE, raised |-> FALSE]

\* a direct call touches the ledger table only
LedgerOnly ==
    /\ NoLifecycle /\ NoSplit /\ NoSched /\ NoThreads /\ NoTranscribe
    /\ UNCHANGED <<core_hist, chain_vars, chain_hist>>

LedgerInit ==
    /\ ledger_call = NoCall
    /\ ledger_marked = {}

\* MessageDatabase.mark_processed(message_id, bot_name, ...)
CallMarkProcessed ==
    \E w \in Callers, id \in LedgerIds, h \in LedgerBots,
       text \in {"response", "[no response]"} :
        LET r == mark_processed(processed_messages, Row(id, h, text, "", 0))
        IN  /\ processed_messages' = r.table
            /\ ledger_call' = [op |-> "mark_processed", caller |-> w,
                               message_id |-> id, bot_name |-> h,
                               result |-> FALSE, raised |-> r.raised]
            /\ ledger_marked' = ledger_marked \cup {<<id, h>>}
            /\ UNCHANGED <<chat, pc, is_first_run, should_exit, messages,
                           fetched, cur, tick, invoked, sends, handled,
                           message_count>>
            /\ LedgerOnly

\* MessageDatabase.is_processed(message_id, bot_name)
CallIsProcessed ==
    \E w \in Callers, id \in LedgerIds, h \in LedgerBots :
        /\ ledger_call' = [op |-> "is_processed", caller |-> w,
                           message_id |-> id, bot_name |-> h,
                           result |-> is_processed(processed_messages, id, h),
                           raised |-> FALSE]
        /\ UNCHANGED <<core_vars, ledger_marked>>
        /\ LedgerOnly

LedgerNext ==
    \/ CallMarkProcessed
    \/ CallIsProcessed

(* ============== the backend processor, MessageProcessor ================= *)
BotIds == 1..MaxBots

\* message content as _process_message tells it apart (no media)
MpContents == {"hello", ""}

\* bot_id of a ProcessedMessage written without a bot
NoBot == 0

ChainInit ==
    /\ chat_bots = [b \in BotIds |-> [enabled |-> FALSE, priority |-> b]]
    /\ mp_chat = <<>>
    /\ mp_table = EmptyBag
    /\ mp_pending = EmptyBag
    /\ mp_broken = FALSE
    /\ mp_pc = "created"
    /\ mp_is_first_run = TRUE
    /\ mp_messages = <<>>
    /\ mp_cur = 0
    /\ mp_chain = <<>>
    /\ mp_events = <<>>
    /\ mp_polls = 0
    /\ mp_routed = {}
    /\ mp_quiet = {}

\* the assignments, were the query to say ORDER BY ChatBot.priority DESC
ByPriorityDesc(cb, bs) ==
    CHOOSE s \in [1..Cardinality(bs) -> bs] :
        /\ \A i, j \in 1..Cardinality(bs) : i # j => s[i] # s[j]
        /\ \A i, j \in 1..Cardinality(bs) :
               i < j => cb[s[i]].priority >= cb[s[j]].priority

RECURSIVE ByPriority(_, _)
\* ORDER BY ChatBot.priority ASC
ByPriority(cb, bs) ==
    IF bs = {} THEN <<>>
    ELSE LET b == CHOOSE x \in bs :
                    \A y \in bs : cb[x].priority <= cb[y].priority
         IN  <<b>> \o ByPriority(cb, bs \ {b})

\* BotManager.get_bots_for_chat: the enabled assignments, by priority
get_bots_for_chat(cb) == ByPriority(cb, {b \in BotIds : cb[b].enabled})

\* rows the open session sees: committed ones and its own flushed ones
SessionRows == mp_table (+) mp_pending

\* MessageProcessor._is_processed: the key is message_id alone
mp_is_processed(id) == \E r \in BagToSet(SessionRows) : r.message_id = id

\* MessageProcessor._mark_as_processed: db.add + db.flush. message_id is
\* unique: a second row makes the flush fail, which rolls the transaction
\* back and leaves the session unusable until a rollback
mp_mark(row) ==
    IF mp_broken
    THEN [pending |-> mp_pending, broken |-> TRUE, raised |-> TRUE]
    ELSE IF mp_is_processed(row.message_id)
         THEN [pending |-> EmptyBag, broken |-> TRUE, raised |-> TRUE]
         ELSE [pending |-> mp_pending (+) SetToBag({row}),
               broken |-> FALSE, raised |-> FALSE]

MpRow(id, bot, response) ==
    [message_id |-> id, bot_id |-> bot, response |-> response]

ChainOnly ==
    /\ NoLifecycle /\ NoSplit /\ NoSched /\ NoThreads /\ NoTranscribe
    /\ UNCHANGED <<core_vars, core_hist, ledger_vars>>

\* no message goes to the bots in this step
NoRouting == UNCHANGED chain_hist

\* the operator assigns bots to the conversation (ChatBot rows: enabled
\* flag, priority), here before the processor starts
MpAssign ==
    /\ ChainOnly /\ NoRouting
    /\ mp_pc = "created"
    /\ chat_bots' \in
         { [b \in BotIds |-> [enabled |-> e[b], priority |-> q[b]]] :
             e \in [BotIds -> BOOLEAN], q \in Permutations(BotIds) }
    /\ chat_bots' # chat_bots
    /\ UNCHANGED <<mp_chat, mp_table, mp_pending, mp_broken, mp_pc,
                   mp_is_first_run, mp_messages, mp_cur, mp_chain, mp_events,
                   mp_polls>>

\* lifespan(): message_processor.start(), which only schedules the poll
\* task, then mark_initialization_complete(), before the task first runs
MpLifespan ==
    /\ ChainOnly /\ NoRouting
    /\ mp_pc = "created"
    /\ mp_pc' = "idle"
    /\ mp_is_first_run' = FALSE
    /\ UNCHANGED <<chat_bots, mp_chat, mp_table, mp_pending, mp_broken,
                   mp_messages, mp_cur, mp_chain, mp_events, mp_polls>>

MpArrive ==
    /\ ChainOnly /\ NoRouting
    /\ Len(mp_chat) < MaxMpMsgs
    /\ \E c \in MpContents :
         mp_chat' = Append(mp_chat, [id |-> Len(mp_chat) + 1, content |-> c])
    /\ UNCHANGED <<chat_bots, mp_table, mp_pending, mp_broken, mp_pc,
                   mp_is_first_run, mp_messages, mp_cur, mp_chain, mp_events,
                   mp_polls>>

RECURSIVE MpFirstRunMark(_, _)
\* _poll_chat_messages(), is_first_run branch: every fetched message is
\* marked, without asking _is_processed; the first failing flush ends it
MpFirstRunMark(pending, ms) ==
    IF ms = <<>> THEN [pending |-> pending, broken |-> FALSE]
    ELSE IF \E r \in BagToSet(mp_table (+) pending) :
                r.message_id = Head(ms).id
         THEN [pending |-> EmptyBag, broken |-> TRUE]
         ELSE MpFirstRunMark(
                  pending (+) SetToBag({MpRow(Head(ms).id, NoBot, "none")}),
                  Tail(ms))

\* _poll_messages() / _poll_chat_messages() up to the loop over the messages
MpPoll ==
    /\ ChainOnly /\ NoRouting
    /\ mp_pc = "idle" /\ mp_polls < MaxMpPolls
    /\ mp_polls' = mp_polls + 1
    /\ \E got \in {<<>>, Reverse(mp_chat), mp_chat} :
         IF got = <<>>
         THEN UNCHANGED <<mp_pending, mp_broken, mp_pc, mp_messages>>
         ELSE IF mp_is_first_run
              THEN LET r == MpFirstRunMark(mp_pending, got)
                   IN  /\ mp_pending' = r.pending
                       /\ mp_broken' = r.broken
                       /\ mp_pc' = "walk"
                       /\ mp_messages' = <<>>
              ELSE /\ mp_messages' = Reverse(got)
                   /\ mp_pc' = "walk"
                   /\ UNCHANGED <<mp_pending, mp_broken>>
    /\ UNCHANGED <<chat_bots, mp_chat, mp_table, mp_is_first_run, mp_cur,
                   mp_chain, mp_events>>

\* _process_message(): _is_processed raises on the unusable session, or the
\* message is already recorded, or it has no content
MpWalkSkip ==
    /\ ChainOnly /\ NoRouting
    /\ mp_pc = "walk" /\ mp_messages # <<>>
    /\ \/ mp_broken
       \/ mp_is_processed(Head(mp_messages).id)
       \/ Head(mp_messages).content = ""
    /\ mp_messages' = Tail(mp_messages)
    /\ UNCHANGED <<chat_bots, mp_chat, mp_table, mp_pending, mp_broken, mp_pc,
                   mp_is_first_run, mp_cur, mp_chain, mp_events, mp_polls>>

MpRoutable ==
    /\ mp_pc = "walk" /\ mp_messages # <<>>
    /\ ~mp_broken
    /\ ~mp_is_processed(Head(mp_messages).id)
    /\ Head(mp_messages).content # ""

\* _process_message(): `if not bot_assignments:` records the message
MpNoBots ==
    /\ ChainOnly
    /\ MpRoutable
    /\ get_bots_for_chat(chat_bots) = <<>>
    /\ mp_pending' = mp_mark(MpRow(Head(mp_messages).id, NoBot, "none")).pending
    /\ mp_broken' = mp_mark(MpRow(Head(mp_messages).id, NoBot, "none")).broken
    /\ mp_messages' = Tail(mp_messages)
    /\ mp_routed' = mp_routed \cup {Head(mp_messages).id}
    /\ mp_quiet' = IF Head(mp_messages).id \notin mp_routed
                   THEN mp_quiet \cup {Head(mp_messages).id}
                   ELSE mp_quiet
    /\ UNCHANGED <<chat_bots, mp_chat, mp_table, mp_pc, mp_is_first_run,
                   mp_cur, mp_chain, mp_events, mp_polls>>

\* _process_message(): the loop over bot_assignments starts
MpChainStart ==
    /\ ChainOnly
    /\ MpRoutable
    /\ get_bots_for_chat(chat_bots) # <<>>
    /\ mp_chain' = get_bots_for_chat(chat_bots)
    /\ mp_cur' = Head(mp_messages).id
    /\ mp_events' = <<>>
    /\ mp_pc' = "chain"
    /\ UNCHANGED chain_hist
    /\ UNCHANGED <<chat_bots, mp_chat, mp_table, mp_pending, mp_broken,
                   mp_is_first_run, mp_messages, mp_polls>>

\* the loop over bot_assignments, were an exception to leave it
ChainAfterRaiseAbort(chain) == <<>>

\* `except Exception` sits inside the loop over bot_assignments: the loop
\* goes on with the next assignment
ChainAfterRaise(chain) == Tail(chain)

\* one turn of the loop: what one bot did with the message
MpBot(ev, rest) ==
    /\ ChainOnly /\ NoRouting
    /\ mp_pc = "chain" /\ mp_chain # <<>>
    /\ mp_events' = Append(mp_events, [bot |-> Head(mp_chain), ev |-> ev])
    /\ mp_chain' = rest
    /\ UNCHANGED <<chat_bots, mp_chat, mp_table, mp_pc, mp_is_first_run,
                   mp_messages, mp_cur, mp_polls>>

\* bot_instance.process_message raises
MpBotRaise ==
    /\ MpBot("raise", ChainAfterRaise(mp_chain))
    /\ UNCHANGED <<mp_pending, mp_broken>>

\* bot_instance.process_message returns no response
MpBotNone ==
    /\ MpBot("none", Tail(mp_chain))
    /\ UNCHANGED <<mp_pending, mp_broken>>

\* the response is sent and send_message returns False
MpBotSendFail ==
    /\ MpBot("send_failed", Tail(mp_chain))
    /\ UNCHANGED <<mp_pending, mp_broken>>

\* the response is sent; _mark_as_processed with the bot and its response,
\* whose exception the same `except Exception` swallows
MpBotSendOk ==
    /\ MpBot("sent", Tail(mp_chain))
    /\ mp_pending' = mp_mark(MpRow(mp_cur, Head(mp_chain), "response")).pending
    /\ mp_broken' = mp_mark(MpRow(mp_cur, Head(mp_chain), "response")).broken

\* _process_message(): after the loop, `if not await self._is_processed`
\* (which raises on the unusable session) the message is recorded
MpChainEnd ==
    /\ ChainOnly
    /\ mp_pc = "chain" /\ mp_chain = <<>>
    /\ IF mp_broken \/ mp_is_processed(mp_cur)
       THEN UNCHANGED <<mp_pending, mp_broken>>
       ELSE /\ mp_pending' = mp_mark(MpRow(mp_cur, NoBot, "none")).pending
            /\ mp_broken' = mp_mark(MpRow(mp_cur, NoBot, "none")).broken
    /\ mp_pc' = "walk"
    /\ mp_messages' = Tail(mp_messages)
    /\ mp_routed' = mp_routed \cup {mp_cur}
    /\ mp_quiet' = IF /\ mp_cur \notin mp_routed
                      /\ \A k \in 1..Len(mp_events) : mp_events[k].ev # "sent"
                   THEN mp_quiet \cup {mp_cur}
                   ELSE mp_quiet
    /\ UNCHANGED <<chat_bots, mp_chat, mp_table, mp_is_first_run, mp_cur,
                   mp_chain, mp_events, mp_polls>>

\* get_db_context(): session.commit(), or on its failure session.rollback()
MpPollEnd ==
    /\ ChainOnly /\ NoRouting
    /\ mp_pc = "walk" /\ mp_messages = <<>>
    /\ mp_table' = IF mp_broken THEN mp_table ELSE mp_table (+) mp_pending
    /\ mp_pending' = EmptyBag
    /\ mp_broken' = FALSE
    /\ mp_pc' = "idle"
    /\ UNCHANGED <<chat_bots, mp_chat, mp_is_first_run, mp_messages, mp_cur,
                   mp_chain, mp_events, mp_polls>>

ChainNext ==
    \/ MpAssign
    \/ MpLifespan
    \/ MpArrive
    \/ MpPoll
    \/ MpWalkSkip
    \/ MpNoBots
    \/ MpChainStart
    \/ MpBotRaise
    \/ MpBotNone
    \/ MpBotSendFail
    \/ MpBotSendOk
    \/ MpChainEnd
    \/ MpPollEnd

(* ============ the lifecycle manager, api BotManager ===================== *)
\* conversations the lifecycle manager is asked about
LmChats == {"c1"}

\* handler types under src/bots: TranslationBot.NAME, JokeBot.NAME
LmBotNames == {"translation", "joke"}

\* bot_key = (bot_name, chat_jid)
Keys == LmBotNames \X LmChats

\* what _discover_bots can find: every type, or one whose module failed to
\* import
Discoveries == {LmBotNames, {"translation"}}

NoTime == -1

NoKey == <<"", "">>

\* a call of the lifecycle manager: its arguments, its return value, when
\* it was made (at), the joins of it that timed out, for start_running_bots
\* the start_bot calls it made and those that failed; n tells a call from
\* the one before it
LmNoCall == [op |-> "none", key |-> NoKey, update_db |-> FALSE,
             result |-> FALSE, at |-> 0, n |-> 0, timed_out |-> {},
             attempted |-> <<>>, failed |-> {}]

LmCall(op, key, update_db, result, T) ==
    [op |-> op, key |-> key, update_db |-> update_db, result |-> result,
     at |-> now, n |-> 1 - lm_call.n, timed_out |-> T,
     attempted |-> <<>>, failed |-> {}]

life_vars == <<bots, bot_threads, bot_start_times, bot_log_handlers,
               bot_classes, chats, running, left_threads, now, lm_phase,
               lm_boots, lm_call>>

\* BotManager.__init__ has not run yet; the sqlite file is new
LifeInit ==
    /\ bots = {}
    /\ bot_threads = {}
    /\ bot_start_times = [k \in Keys |-> NoTime]
    /\ bot_log_handlers = {}
    /\ bot_classes = {}
    /\ chats = {}
    /\ running = [k \in Keys |-> FALSE]
    /\ left_threads = [k \in Keys |-> 0]
    /\ now = 0
    /\ lm_phase = "down"
    /\ lm_boots = 0
    /\ lm_call = LmNoCall

\* the lifecycle manager touches neither the workers' ledger nor the
\* backend processor
LifeOnly ==
    /\ NoSplit /\ NoSched /\ NoThreads /\ NoTranscribe
    /\ UNCHANGED <<core_vars, core_hist, ledger_vars, chain_vars, chain_hist>>

\* any order of the elements of a finite set (rows of a query without an
\* ORDER BY that matters here)
SeqOf(S) ==
    CHOOSE s \in [1..Cardinality(S) -> S] :
        \A i, j \in 1..Cardinality(S) : i # j => s[i] # s[j]

\* get_bot_status()["status"]
get_bot_status(key) ==
    IF key \in bots /\ key \in bot_threads THEN "running" ELSE "stopped"

\* threads of the pair that are inside BotBase.run
Workers(key) == (IF key \in bot_threads THEN 1 ELSE 0) + left_threads[key]

\* MessageDatabase.set_bot_running_state(bot_name, chat_jid, running) for
\* the keys of K: the UPDATE / INSERT is committed for the keys of W; for the
\* others sqlite raised, which the method logs (it returns False, a value
\* start_bot and stop_bot do not look at)
set_bot_running_state(flags, K, value, W) ==
    [k \in Keys |-> IF k \in K \cap W THEN value ELSE flags[k]]

\* start_bot(), were it not to look the key up in self.bots
AlreadyRunningNever(live, key) == FALSE

\* start_bot(): `if bot_key in self.bots:`
AlreadyRunning(live, key) == key \in live

\* start_bot(bot_name, chat_jid) called by the start endpoint
LcStartBot(key) ==
    /\ LifeOnly
    /\ lm_phase = "up"
    /\ IF key[1] \notin bot_classes
       THEN /\ lm_call' = LmCall("start_bot", key, FALSE, FALSE, {})
            /\ UNCHANGED <<bots, bot_threads, bot_start_times,
                           bot_log_handlers, running>>
       ELSE IF AlreadyRunning(bots, key)
       THEN /\ lm_call' = LmCall("start_bot", key, FALSE, TRUE, {})
            /\ UNCHANGED <<bots, bot_threads, bot_start_times,
                           bot_log_handlers, running>>
       ELSE \/ /\ bot_log_handlers' = bot_log_handlers \cup {key}
               /\ bots' = bots \cup {key}
               /\ bot_threads' = bot_threads \cup {key}
               /\ bot_start_times' = [bot_start_times EXCEPT ![key] = now]
               /\ \E written \in BOOLEAN :
                    running' = set_bot_running_state(running, {key}, TRUE,
                                   IF written THEN {key} ELSE {})
               /\ lm_call' = LmCall("start_bot", key, FALSE, TRUE, {})
            \/ \* thread.start() raises: `except Exception` returns False
               /\ bot_log_handlers' = bot_log_handlers \cup {key}
               /\ lm_call' = LmCall("start_bot", key, FALSE, FALSE, {})
               /\ UNCHANGED <<bots, bot_threads, bot_start_times, running>>
    /\ UNCHANGED <<bot_classes, chats, left_threads, now, lm_phase, lm_boots>>

\* stop_bot(), were it to forget only the workers that ended in time
ForgottenIfJoined(K, T) == K \ T

\* stop_bot(): the `del` statements follow thread.join(timeout=10) whether
\* the thread ended or not. K: the keys stopped, T: those whose join timed out
Forgotten(K, T) == K

\* stop_bot(bot_name, chat_jid, update_db) for every key of K, all of them
\* live: stop() is signalled, the thread joined for 10 s, the maps cleaned,
\* the flag written if update_db
StopKeys(K, update_db, T) ==
    /\ bots' = bots \ Forgotten(K, T)
    /\ bot_threads' = bot_threads \ Forgotten(K, T)
    /\ bot_start_times' = [k \in Keys |->
          IF k \in Forgotten(K, T) THEN NoTime ELSE bot_start_times[k]]
    /\ bot_log_handlers' = bot_log_handlers \ K
    /\ left_threads' = [k \in Keys |->
          IF k \in T THEN left_threads[k] + 1 ELSE left_threads[k]]
    /\ \E W \in SUBSET K :
         running' = IF update_db
                    THEN set_bot_running_state(running, K, FALSE, W)
                    ELSE running

\* the joins that may time out: the worker is in a tick that lasts longer
TimeOuts(K) == SUBSET {k \in K : left_threads[k] < MaxLeft}

\* stop_bot(bot_name, chat_jid) called by the stop endpoint: update_db
\* keeps its default, True
LcStopBot(key) ==
    /\ LifeOnly
    /\ lm_phase = "up"
    /\ IF key \notin bots
       THEN /\ lm_call' = LmCall("stop_bot", key, TRUE, TRUE, {})
            /\ UNCHANGED <<bots, bot_threads, bot_start_times,
                           bot_log_handlers, left_threads, running>>
       ELSE \E T \in TimeOuts({key}) :
              /\ lm_call' = LmCall("stop_bot", key, TRUE, TRUE, T)
              /\ StopKeys({key}, TRUE, T)
    /\ UNCHANGED <<bot_classes, chats, now, lm_phase, lm_boots>>

\* stop_all() as a shutdown that writes the stops to the database would
StopAllUpdateDbTrue == TRUE

\* stop_all(update_db=False): lifespan() calls it without an argument
StopAllUpdateDb == FALSE

\* lifespan(), after the yield: bot_manager.stop_all()
LcStopAll ==
    /\ LifeOnly
    /\ lm_phase = "up"
    /\ lm_phase' = "stopping"
    /\ \E T \in TimeOuts(bots) :
         /\ lm_call' = LmCall("stop_all", NoKey, StopAllUpdateDb, TRUE, T)
         /\ StopKeys(bots, StopAllUpdateDb, T)
    /\ UNCHANGED <<bot_classes, chats, now, lm_boots>>

\* the process ends after the shutdown: its daemon threads end with it
LcProcessExit ==
    /\ LifeOnly
    /\ lm_phase = "stopping"
    /\ lm_phase' = "down"
    /\ left_threads' = [k \in Keys |-> 0]
    /\ bot_log_handlers' = {}
    /\ UNCHANGED <<bots, bot_threads, bot_start_times, bot_classes, chats,
                   running, now, lm_boots, lm_call>>

\* the process is killed: no shutdown code runs, the database stays
LcCrash ==
    /\ LifeOnly
    /\ lm_phase = "up"
    /\ lm_phase' = "down"
    /\ bots' = {}
    /\ bot_threads' = {}
    /\ bot_start_times' = [k \in Keys |-> NoTime]
    /\ bot_log_handlers' = {}
    /\ left_threads' = [k \in Keys |-> 0]
    /\ lm_call' = [LmNoCall EXCEPT !.n = 1 - lm_call.n]
    /\ UNCHANGED <<bot_classes, chats, running, now, lm_boots>>

\* the query, were it to select the rows with running = 0
get_stopped_bots_for_chat(db, c) ==
    {b \in LmBotNames : ~db[<<b, c>>]}

\* SELECT bot_name FROM bot_chat_assignments
\* WHERE chat_jid = ? AND running = 1
get_running_bots_for_chat(db, c) ==
    {b \in LmBotNames : db[<<b, c>>]}

RECURSIVE BootOrder(_, _, _)
\* start_running_bots(): the (bot_name, chat_jid) it calls start_bot for,
\* in order: for chat in list_chats(), for bot_name in
\* get_running_bots_for_chat(chat), `if bot_name in self.bot_classes`
BootOrder(cs, db, classes) ==
    IF cs = {} THEN <<>>
    ELSE LET c == CHOOSE x \in cs : TRUE
         IN  SeqOf({<<b, c>> :
                      b \in get_running_bots_for_chat(db, c) \cap classes})
               \o BootOrder(cs \ {c}, db, classes)

\* the loops of start_running_bots, were a failed start_bot to end them
AfterFailedStartAbort(rest) == <<>>

\* start_running_bots(): start_bot returns False on a failure (its own
\* `except Exception`), and the loops go on with the next assignment
AfterFailedStart(rest) == rest

RECURSIVE StartEach(_, _)
\* the keys start_bot is called for, in order, when the starts of F fail
StartEach(ks, F) ==
    IF ks = <<>> THEN <<>>
    ELSE <<Head(ks)>> \o
         StartEach(IF Head(ks) \in F THEN AfterFailedStart(Tail(ks))
                                     ELSE Tail(ks), F)

\* the process starts: BotManager.__init__ (empty maps, _discover_bots),
\* then lifespan() calls start_running_bots()
LcBoot ==
    /\ LifeOnly
    /\ lm_phase = "down" /\ lm_boots < MaxBoots
    /\ lm_phase' = "up"
    /\ lm_boots' = lm_boots + 1
    /\ \E classes \in Discoveries :
         /\ bot_classes' = classes
         /\ \E F \in SUBSET Range(BootOrder(chats, running, classes)) :
              LET attempted == StartEach(BootOrder(chats, running, classes), F)
                  started == Range(attempted) \ F
              IN  /\ bots' = started
                  /\ bot_threads' = started
                  /\ bot_start_times' = [k \in Keys |->
                        IF k \in started THEN now ELSE NoTime]
                  /\ bot_log_handlers' = Range(attempted)
                  /\ running' = [k \in Keys |-> running[k] \/ k \in started]
                  /\ lm_call' =
                       [LmCall("start_running_bots", NoKey, FALSE, TRUE, {})
                          EXCEPT !.attempted = attempted,
                                 !.failed = F \cap Range(attempted)]
    /\ UNCHANGED <<chats, left_threads, now>>

\* MessageDatabase.add_chat, from the chat endpoints
LcAddChat(c) ==
    /\ LifeOnly
    /\ lm_phase = "up"
    /\ c \notin chats
    /\ chats' = chats \cup {c}
    /\ lm_call' = LmCall("add_chat", <<"", c>>, FALSE, TRUE, {})
    /\ UNCHANGED <<bots, bot_threads, bot_start_times, bot_log_handlers,
                   bot_classes, running, left_threads, now, lm_phase,
                   lm_boots>>

\* the delete endpoint: stop_bot for every live bot of the chat, then
\* MessageDatabase.delete_chat (DELETE FROM chats; foreign keys are not
\* switched on, the assignments stay)
LcDeleteChat(c) ==
    /\ LifeOnly
    /\ lm_phase = "up"
    /\ c \in chats
    /\ chats' = chats \ {c}
    /\ LET K == {k \in bots : k[2] = c /\ k[1] \in bot_classes}
       IN  \E T \in TimeOuts(K) :
             /\ lm_call' = LmCall("delete_chat", <<"", c>>, TRUE, TRUE, T)
             /\ StopKeys(K, TRUE, T)
    /\ UNCHANGED <<bot_classes, now, lm_phase, lm_boots>>

\* time passes (time.time() of bot_start_times)
LcTick ==
    /\ LifeOnly
    /\ now < MaxClock
    /\ now' = now + 1
    /\ UNCHANGED <<bots, bot_threads, bot_start_times, bot_log_handlers,
                   bot_classes, chats, running, left_threads, lm_phase,
                   lm_boots, lm_call>>

\* a worker whose stop() was signalled sees should_exit and leaves run()
LcWorkerExit(key) ==
    /\ LifeOnly
    /\ left_threads[key] > 0
    /\ left_threads' = [left_threads EXCEPT ![key] = @ - 1]
    /\ UNCHANGED <<bots, bot_threads, bot_start_times, bot_log_handlers,
                   bot_classes, chats, running, now, lm_phase, lm_boots,
                   lm_call>>

LifeNext ==
    \/ LcBoot
    \/ \E key \in Keys : LcStartBot(key)
    \/ \E key \in Keys : LcStopBot(key)
    \/ LcStopAll
    \/ LcProcessExit
    \/ LcCrash
    \/ \E c \in LmChats : LcAddChat(c)
    \/ \E c \in LmChats : LcDeleteChat(c)
    \/ LcTick
    \/ \E key \in Keys : LcWorkerExit(key)

(* ==================== the chunker, BotBase.split_message ================ *)
\* TranslationBot.PREFIX, as its characters
AiPrefix == <<"[", "a", "i", "]">>

\* JokeBot.PREFIX
JokePrefix == <<"[", "j", "o", "k", "e", "]">>

\* the PREFIX of the handlers; handle_message() passes no other to
\* split_message
Prefixes == {AiPrefix, JokePrefix}

\* the test, were it to look for "]" in msg_text[:3]
StartsWithBotPrefixShort(msg_text) ==
    /\ msg_text # <<>> /\ msg_text[1] = "["
    /\ \E i \in 1..Len(msg_text) : i <= 3 /\ msg_text[i] = "]"

\* should_process_message(): msg_text.startswith("[") and
\* "]" in msg_text[:20], on the characters of the text
StartsWithBotPrefix(msg_text) ==
    /\ msg_text # <<>> /\ msg_text[1] = "["
    /\ \E i \in 1..Len(msg_text) : i <= 20 /\ msg_text[i] = "]"

\* should_process_message() on a message that is not in the ledger, by what
\* it tests of the text: `if not msg_text`, then the prefix
should_process_text(msg_text) ==
    /\ msg_text # <<>>
    /\ ~StartsWithBotPrefix(msg_text)

\* len(" 999/999 ")
Reserved == 9

\* the window searched for a sentence end, range(.., max_content_length - 200
SentenceWindow == 200

\* the window searched for a space, range(.., max_content_length - 100
WordWindow == 100

\* '.!?\n'
Terminals == {".", "!", "?", "\n"}

\* characters str.strip() removes
IsSpace(c) == c \in {" ", "\n", "\t"}

\* characters the enumerated texts are written in
Alphabet == {"a", " ", ".", "\n"}

RECURSIVE lstrip(_)
lstrip(s) == IF s # <<>> /\ IsSpace(Head(s)) THEN lstrip(Tail(s)) ELSE s

RECURSIVE rstrip(_)
rstrip(s) ==
    IF s # <<>> /\ IsSpace(s[Len(s)])
    THEN rstrip(SubSeq(s, 1, Len(s) - 1)) ELSE s

Max2(a, b) == IF a >= b THEN a ELSE b

Min2(a, b) == IF a <= b THEN a ELSE b

\* where the python slices s[:k] and s[k:] cut s (k may be negative)
Cut(s, k) == IF k >= 0 THEN Min2(k, Len(s)) ELSE Max2(Len(s) + k, 0)

\* s[:k]
Upto(s, k) == SubSeq(s, 1, Cut(s, k))

\* s[k + 1:], a cut that drops a character
FromNext(s, k) == SubSeq(s, Cut(s, k) + 2, Len(s))

\* s[k:]
From(s, k) == SubSeq(s, Cut(s, k) + 1, Len(s))

Largest(S) == CHOOSE x \in S : \A y \in S : y <= x

\* the for / else of the loop body: split_pos for a remaining text longer
\* than M; python indices i, the character at i is remaining[i + 1] here
SplitPos(remaining, M) ==
    LET sentence == {i \in (Max2(0, M - SentenceWindow) + 1)..(M - 1) :
                        remaining[i + 1] \in Terminals}
        word == {i \in (Max2(0, M - WordWindow) + 1)..(M - 1) :
                    remaining[i + 1] = " "}
    IN  IF sentence # {} THEN Largest(sentence) + 1
        ELSE IF word # {} THEN Largest(word) + 1
        ELSE M

\* self.MAX_MESSAGE_LENGTH - header_overhead of a bot whose limit is L
MaxContent(prefix, L) == L - (Len(prefix) + Reserved)

\* chunks.append(remaining[:split_pos].rstrip())
ChunkOf(remaining, M) == rstrip(Upto(remaining, SplitPos(remaining, M)))

\* remaining = remaining[split_pos:].lstrip()
RestOf(remaining, M) == lstrip(From(remaining, SplitPos(remaining, M)))

Digit(d) == <<"0", "1", "2", "3", "4", "5", "6", "7", "8", "9">>[d + 1]

RECURSIVE Dec(_)
\* str(n) of an f-string
Dec(n) == IF n < 10 THEN <<Digit(n)>>
          ELSE Dec(n \div 10) \o <<Digit(n % 10)>>

\* f"{prefix} {i+1}/{total_chunks} "
Header(prefix, i, n) ==
    prefix \o <<" ">> \o Dec(i) \o <<"/">> \o Dec(n) \o <<" ">>

\* a token on every chunk, a single one included
PaginateAlways(prefix, chunks) ==
    [i \in 1..Len(chunks) |-> Header(prefix, i, Len(chunks)) \o chunks[i]]

\* the return statements after the loop
Paginate(prefix, chunks) ==
    IF Len(chunks) = 1
    THEN <<prefix \o <<" ">> \o chunks[1]>>
    ELSE [i \in 1..Len(chunks) |->
            Header(prefix, i, Len(chunks)) \o chunks[i]]

\* BotBase.MAX_MESSAGE_LENGTH
MAX_MESSAGE_LENGTH == 4095

\* the texts written in Alphabet, up to MaxTextLen characters
Texts == UNION {[1..n -> Alphabet] : n \in 0..MaxTextLen}

\* the limits tried with a prefix: from one below the reserved overhead
\* (max_content_length = -1) to MaxRoom above it, and the real one
Limits(prefix) ==
    ((Len(prefix) + Reserved - 1)..(Len(prefix) + Reserved + MaxRoom))
        \cup {MAX_MESSAGE_LENGTH}

Repeat(c, n) == [i \in 1..n |-> c]

\* "Hello world. Goodbye."
HelloGoodbye ==
    <<"H", "e", "l", "l", "o", " ", "w", "o", "r", "l", "d", ".", " ",
      "G", "o", "o", "d", "b", "y", "e", ".">>

\* texts too long to enumerate: the scenario of the specification, a text
\* cut into ManyChunks chunks, a text over the real limit with a sentence
\* end near the cut, a text ending in a space under a limit below the
\* reserved overhead, a text over the real limit whose only sentence end is
\* the 200th character before the cut
LongInputs ==
    { [text |-> HelloGoodbye, limit |-> 30],
      [text |-> Repeat("a", ManyChunks),
       limit |-> Len(AiPrefix) + Reserved + 1],
      [text |-> Repeat("a", 4000) \o <<".", " ">> \o Repeat("b", 100),
       limit |-> MAX_MESSAGE_LENGTH],
      [text |-> Repeat("a", 8) \o <<" ">>,
       limit |-> Len(AiPrefix) + Reserved - 1],
      [text |-> Repeat("a", MAX_MESSAGE_LENGTH - Len(AiPrefix) - Reserved
                            - SentenceWindow)
                \o <<".">> \o Repeat("b", SentenceWindow + 100),
       limit |-> MAX_MESSAGE_LENGTH] }

\* split_call.pc: "idle" before the call, "loop" at `while remaining:`, "headers"
\* after the loop, "done" returned, "hang" in a turn of the loop that left
\* `remaining` as it was (the loop is deterministic in `remaining`, so the
\* same turn follows for ever)
NoSplitCall == [pc |-> "idle", text |-> <<>>, prefix |-> <<>>, limit |-> 0,
                remaining |-> <<>>, chunks |-> <<>>]

SplitInit == split_call = NoSplitCall

\* split_message is a pure function of its arguments
SplitOnly ==
    /\ NoLifecycle /\ NoSched /\ NoThreads /\ NoTranscribe
    /\ UNCHANGED <<core_vars, core_hist, ledger_vars, chain_vars, chain_hist>>

\* split_message(text, prefix) up to the first test of the loop
SplitEnter(text, prefix, L) ==
    IF Len(text) <= MaxContent(prefix, L)
    THEN [pc |-> "done", text |-> text, prefix |-> prefix, limit |-> L,
          remaining |-> <<>>, chunks |-> <<prefix \o <<" ">> \o text>>]
    ELSE [pc |-> IF text = <<>> THEN "headers" ELSE "loop",
          text |-> text, prefix |-> prefix, limit |-> L,
          remaining |-> text, chunks |-> <<>>]

\* handle_message(): self.split_message(response_text)
SplitCall ==
    /\ split_call.pc = "idle"
    /\ \E prefix \in Prefixes, text \in Texts :
         \E L \in Limits(prefix) :
            split_call' = SplitEnter(text, prefix, L)
    /\ SplitOnly

\* the same call on one of the long texts
SplitLongCall ==
    /\ split_call.pc = "idle"
    /\ \E inp \in LongInputs :
         split_call' = SplitEnter(inp.text, AiPrefix, inp.limit)
    /\ SplitOnly

\* one turn of `while remaining:` and the test that follows it
SplitTurn ==
    /\ split_call.pc = "loop"
    /\ LET remaining == split_call.remaining
           M == MaxContent(split_call.prefix, split_call.limit)
       IN  split_call' =
             IF Len(remaining) <= M
             THEN [split_call EXCEPT !.pc = "headers",
                                     !.chunks = Append(@, remaining)]
             ELSE [split_call EXCEPT
                     !.pc = IF RestOf(remaining, M) = <<>> THEN "headers"
                            ELSE IF RestOf(remaining, M) = remaining
                            THEN "hang" ELSE "loop",
                     !.chunks = Append(@, ChunkOf(remaining, M)),
                     !.remaining = RestOf(remaining, M)]
    /\ SplitOnly

\* total_chunks = len(chunks) and the return that follows
SplitPaginate ==
    /\ split_call.pc = "headers"
    /\ split_call' =
         [split_call EXCEPT !.pc = "done",
                            !.chunks = Paginate(split_call.prefix, @)]
    /\ SplitOnly

SplitNext ==
    \/ SplitCall
    \/ SplitLongCall
    \/ SplitTurn
    \/ SplitPaginate

(* ==================== the scheduler, MessageScheduler ==================== *)
\* ScheduledMessage.id of the jobs followed
JobIds == {"j1", "j2"}

\* Chat.id of the conversation that exists and of one that does not
SchedChat == "c1"

SchedChatIds == {SchedChat, "cX"}

\* ScheduleType
ONCE == "once"

CRON == "cron"

\* a schedule_expression as its parse sees it: datetime.fromisoformat /
\* CronTrigger.from_crontab raise ValueError on a malformed one (valid =
\* FALSE); `at` is the run date of a ONCE expression, in clock ticks; the
\* CRON expression that parses has an occurrence at every tick
BadExpr == [valid |-> FALSE, at |-> 0]

OnceExprs == {[valid |-> TRUE, at |-> t] : t \in 0..MaxSchedClock} \cup {BadExpr}

CronExprs == {[valid |-> TRUE, at |-> 0], BadExpr}

Exprs(kind) == IF kind = ONCE THEN OnceExprs ELSE CronExprs

\* no row of scheduled_messages with this id
NoRow == [present |-> FALSE, kind |-> ONCE, expr |-> BadExpr,
          enabled |-> FALSE, last_run_at |-> NoTime, next_run_at |-> NoTime]

\* ScheduledMessage(...): last_run_at and next_run_at are NULL
NewRow(kind, expr, enabled) ==
    [present |-> TRUE, kind |-> kind, expr |-> expr, enabled |-> enabled,
     last_run_at |-> NoTime, next_run_at |-> NoTime]

\* no job of this id in the timer engine
NoTimer == [registered |-> FALSE, kind |-> ONCE, next |-> NoTime]

\* apscheduler's misfire_grace_time (1 second by default, not set by
\* add_job), in clock ticks: a run that is a tick late is missed
MisfireGrace == 0

\* the first fire time the engine computes for a trigger added at T:
\* DateTrigger: the run date, past or not; CronTrigger: the next occurrence
FirstFire(row, T) == IF row.kind = ONCE THEN row.expr.at ELSE T + 1

\* _add_job(schedule): the registry after it. A malformed expression raises
\* (the loader logs it and goes on), add_job replaces an existing job
\* of the same id
AddJob(timers, j, row, T) ==
    IF ~row.expr.valid THEN timers
    ELSE [timers EXCEPT ![j] = [registered |-> TRUE, kind |-> row.kind,
                                next |-> FirstFire(row, T)]]

\* _load_jobs_from_db(): _add_job for every enabled row
LoadJobs(timers, rows, T) ==
    [j \in JobIds |->
        IF rows[j].present /\ rows[j].enabled
        THEN AddJob(timers, j, rows[j], T)[j]
        ELSE timers[j]]

\* send_scheduled_message(): the row after `schedule.last_run_at = ...`;
\* next_run_at is not assigned
FiredRow(row, T) ==
    IF ~row.present THEN row
    ELSE [row EXCEPT !.last_run_at = T,
                     !.enabled = IF row.kind = ONCE THEN FALSE ELSE @]

\* a fire that records nothing at the gateway
ScheduledSendLost(j, T, ok) == [job |-> "", at |-> NoTime, sent |-> FALSE]

\* send_scheduled_message(): whatsapp_client.send_message(phone=chat_jid,
\* message=message) and what it returned
ScheduledSend(j, T, ok) == [job |-> j, at |-> T, sent |-> ok]

\* the engine after running (or missing) job j at T: a date trigger has no
\* further fire time and its job is removed, a cron trigger moves on
AfterRun(timers, j, T) ==
    [timers EXCEPT ![j] = IF @.kind = ONCE THEN NoTimer
                          ELSE [@ EXCEPT !.next = T + 1]]

\* MessageScheduler has the methods __init__, start, stop,
\* _load_jobs_from_db and _add_job; schedule_message, update_schedule,
\* remove_schedule and trigger_schedule are defined inside the function
\* send_scheduled_message, so the attribute lookup on the scheduler raises
\* AttributeError
SchedulerMethods == {"start", "stop", "_load_jobs_from_db", "_add_job"}

HasMethod(name) == name \in SchedulerMethods

\* a request to the schedule API and its outcome: found = the chat (create)
\* or the schedule (update, delete, run) exists, expr_valid = the expression
\* sent parses, ok = answered with a success status
NoSchedCall == [op |-> "none", job |-> "", found |-> FALSE,
                expr_valid |-> FALSE, enabled |-> FALSE, ok |-> FALSE,
                n |-> 0]

SchedCall(op, j, found, expr_valid, enabled, ok) ==
    [op |-> op, job |-> j, found |-> found, expr_valid |-> expr_valid,
     enabled |-> enabled, ok |-> ok, n |-> 1 - sc_call.n]

SchedInit ==
    /\ sc_jobs = [j \in JobIds |-> NoRow]
    /\ sc_timers = [j \in JobIds |-> NoTimer]
    /\ sc_up = FALSE
    /\ sc_boots = 0
    /\ sc_now = 0
    /\ sc_gateway = {}
    /\ sc_call = NoSchedCall

\* the scheduler and the schedule API touch neither the workers nor the
\* message processor and its ProcessedMessage rows
SchedOnly ==
    /\ NoLifecycle /\ NoSplit /\ NoThreads /\ NoTranscribe
    /\ UNCHANGED <<core_vars, core_hist, ledger_vars, chain_vars, chain_hist>>

\* an enabled row the table holds when the application first starts
SchedSeed(j) ==
    /\ sc_boots = 0
    /\ ~sc_jobs[j].present
    /\ \E kind \in {ONCE, CRON} :
         \E expr \in Exprs(kind) :
            sc_jobs' = [sc_jobs EXCEPT ![j] = NewRow(kind, expr, TRUE)]
    /\ UNCHANGED <<sc_timers, sc_up, sc_boots, sc_now, sc_gateway, sc_call>>
    /\ SchedOnly

\* lifespan: message_scheduler.start(); the job store is a table of the
\* database, the jobs in it outlive the process
SchedStart ==
    /\ ~sc_up
    /\ sc_boots < MaxSchedBoots
    /\ sc_up' = TRUE
    /\ sc_boots' = sc_boots + 1
    /\ sc_timers' = LoadJobs(sc_timers, sc_jobs, sc_now)
    /\ UNCHANGED <<sc_jobs, sc_now, sc_gateway, sc_call>>
    /\ SchedOnly

\* lifespan: message_scheduler.stop()
SchedStop ==
    /\ sc_up
    /\ sc_up' = FALSE
    /\ UNCHANGED <<sc_jobs, sc_timers, sc_boots, sc_now, sc_gateway, sc_call>>
    /\ SchedOnly

\* job j is to run now or was to run earlier
Due(j) == sc_timers[j].registered /\ sc_timers[j].next <= sc_now

\* the run of job j the engine is about to make is late by more than the
\* grace time; the occurrences of a cron trigger are coalesced into the
\* latest one, which is the present tick
Late(j) ==
    /\ sc_timers[j].kind = ONCE
    /\ sc_now - sc_timers[j].next > MisfireGrace

\* time passes; a running engine has run its due jobs by then
SchedTick ==
    /\ sc_now < MaxSchedClock
    /\ sc_up => \A j \in JobIds : ~Due(j)
    /\ sc_now' = sc_now + 1
    /\ UNCHANGED <<sc_jobs, sc_timers, sc_up, sc_boots, sc_gateway, sc_call>>
    /\ SchedOnly

\* the engine runs send_scheduled_message for job j
SchedFire(j) ==
    /\ sc_up
    /\ Due(j)
    /\ ~Late(j)
    /\ \E ok \in BOOLEAN :
         sc_gateway' = sc_gateway \cup {ScheduledSend(j, sc_now, ok)}
    /\ sc_jobs' = [sc_jobs EXCEPT ![j] = FiredRow(@, sc_now)]
    /\ sc_timers' = AfterRun(sc_timers, j, sc_now)
    /\ UNCHANGED <<sc_up, sc_boots, sc_now, sc_call>>
    /\ SchedOnly

\* the engine finds the run of job j missed and does not call the function
SchedMissed(j) ==
    /\ sc_up
    /\ Due(j)
    /\ Late(j)
    /\ sc_timers' = AfterRun(sc_timers, j, sc_now)
    /\ UNCHANGED <<sc_jobs, sc_up, sc_boots, sc_now, sc_gateway, sc_call>>
    /\ SchedOnly

\* POST /api/schedules
create_schedule(j) ==
    /\ sc_up
    /\ ~sc_jobs[j].present
    /\ \E chat_id \in SchedChatIds, kind \in {ONCE, CRON}, enabled \in BOOLEAN :
         \E expr \in Exprs(kind) :
            LET found == chat_id = SchedChat
                raised == enabled /\ ~HasMethod("schedule_message")
                ok == found /\ ~raised
            IN  /\ sc_jobs' = IF ok
                              THEN [sc_jobs EXCEPT
                                      ![j] = NewRow(kind, expr, enabled)]
                              ELSE sc_jobs
                /\ sc_call' = SchedCall("create", j, found, expr.valid,
                                        enabled, ok)
    /\ UNCHANGED <<sc_timers, sc_up, sc_boots, sc_now, sc_gateway>>
    /\ SchedOnly

\* PUT /api/schedules/{schedule_id}: get_db rolls the changed fields back
\* when scheduler.update_schedule raises
update_schedule(j) ==
    /\ sc_up
    /\ LET ok == sc_jobs[j].present /\ HasMethod("update_schedule")
       IN  sc_call' = SchedCall("update", j, sc_jobs[j].present, TRUE,
                                sc_jobs[j].enabled, ok)
    /\ UNCHANGED <<sc_jobs, sc_timers, sc_up, sc_boots, sc_now, sc_gateway>>
    /\ SchedOnly

\* DELETE /api/schedules/{schedule_id}: scheduler.remove_schedule is called,
\* and raises, before db.delete
delete_schedule(j) ==
    /\ sc_up
    /\ LET ok == sc_jobs[j].present /\ HasMethod("remove_schedule")
       IN  sc_call' = SchedCall("delete", j, sc_jobs[j].present, TRUE,
                                sc_jobs[j].enabled, ok)
    /\ UNCHANGED <<sc_jobs, sc_timers, sc_up, sc_boots, sc_now, sc_gateway>>
    /\ SchedOnly

\* POST /api/schedules/{schedule_id}/run: the AttributeError is caught and
\* answered with success=False
run_schedule(j) ==
    /\ sc_up
    /\ LET ok == sc_jobs[j].present /\ HasMethod("trigger_schedule")
       IN  sc_call' = SchedCall("run", j, sc_jobs[j].present, TRUE,
                                sc_jobs[j].enabled, ok)
    /\ UNCHANGED <<sc_jobs, sc_timers, sc_up, sc_boots, sc_now, sc_gateway>>
    /\ SchedOnly

SchedNext ==
    \/ \E j \in JobIds : SchedSeed(j)
    \/ SchedStart
    \/ SchedStop
    \/ SchedTick
    \/ \E j \in JobIds : SchedFire(j)
    \/ \E j \in JobIds : SchedMissed(j)
    \/ \E j \in JobIds : create_schedule(j)
    \/ \E j \in JobIds : update_schedule(j)
    \/ \E j \in JobIds : delete_schedule(j)
    \/ \E j \in JobIds : run_schedule(j)

(* ============ two worker threads on one conversation ==================== *)
\* the handlers the operator starts for the conversation
ThreadBots == {"translation", "joke"}

ThreadKeys == (1..MaxThreadMsgs) \X ThreadBots

NoThread == [pc |-> "none", is_first_run |-> TRUE, should_exit |-> FALSE,
             messages |-> <<>>, message_id |-> 0]

ThreadsInit ==
    /\ th_chat = 0
    /\ th_ledger = {}
    /\ th_run = [b \in ThreadBots |-> NoThread]
    /\ th_delivered = [k \in ThreadKeys |-> 0]

\* the step belongs to the threads of this conversation
ThreadsOnly ==
    /\ NoLifecycle /\ NoSplit /\ NoSched /\ NoTranscribe
    /\ UNCHANGED <<core_vars, core_hist, ledger_vars, chain_vars, chain_hist>>

\* get_messages: the ids in the conversation, oldest first after reverse()
Oldest(n) == [i \in 1..n |-> i]

\* start_bot(): a new bot instance and threading.Thread(target=bot.run)
\* .start() for a handler that has no worker
ThreadStart(b) ==
    /\ th_run[b].pc = "none"
    /\ th_run' = [th_run EXCEPT ![b] = [NoThread EXCEPT !.pc = "sleep"]]
    /\ UNCHANGED <<th_chat, th_ledger, th_delivered>>
    /\ ThreadsOnly

\* stop_bot(): bot.stop() sets should_exit
ThreadStop(b) ==
    /\ th_run[b].pc # "none" /\ ~th_run[b].should_exit
    /\ th_run' = [th_run EXCEPT ![b].should_exit = TRUE]
    /\ UNCHANGED <<th_chat, th_ledger, th_delivered>>
    /\ ThreadsOnly

\* a participant posts an ordinary text message
ThreadArrive ==
    /\ th_chat < MaxThreadMsgs
    /\ th_chat' = th_chat + 1
    /\ UNCHANGED <<th_ledger, th_run, th_delivered>>
    /\ ThreadsOnly

\* run(): `while not self.should_exit` and one get_messages; the first run
\* records what it finds, a later one starts the walk
ThreadPoll(b) ==
    /\ th_run[b].pc = "sleep"
    /\ IF th_run[b].should_exit
       THEN /\ th_run' = [th_run EXCEPT ![b] = NoThread]
            /\ UNCHANGED th_ledger
       ELSE IF th_chat = 0
       THEN UNCHANGED <<th_ledger, th_run>>
       ELSE IF th_run[b].is_first_run
       THEN /\ th_ledger' = th_ledger \cup {<<id, b>> : id \in 1..th_chat}
            /\ th_run' = [th_run EXCEPT ![b].is_first_run = FALSE]
       ELSE /\ th_run' = [th_run EXCEPT ![b].pc = "route",
                                        ![b].messages = Oldest(th_chat)]
            /\ UNCHANGED th_ledger
    /\ UNCHANGED <<th_chat, th_delivered>>
    /\ ThreadsOnly

\* run(): `for message in messages`, `if self.should_exit: break` and
\* should_process_message on the next one; the end of the list is the sleep
\* before the next poll
ThreadRoute(b) ==
    /\ th_run[b].pc = "route"
    /\ LET rest == th_run[b].messages
       IN  th_run' =
             IF rest = <<>> \/ th_run[b].should_exit
             THEN [th_run EXCEPT ![b].pc = "sleep", ![b].messages = <<>>]
             ELSE IF <<Head(rest), b>> \in th_ledger
             THEN [th_run EXCEPT ![b].messages = Tail(rest)]
             ELSE [th_run EXCEPT ![b].pc = "handle",
                                 ![b].message_id = Head(rest),
                                 ![b].messages = Tail(rest)]
    /\ UNCHANGED <<th_chat, th_ledger, th_delivered>>
    /\ ThreadsOnly

\* handle_message() returns: a send failed and nothing is recorded, or every
\* chunk went out and mark_processed records the pair, or every chunk went
\* out and mark_processed raised (sqlite3.OperationalError), which
\* handle_message logs
ThreadHandled(b) ==
    /\ th_run[b].pc = "handle"
    /\ LET key == <<th_run[b].message_id, b>>
       IN  \E success \in BOOLEAN, written \in BOOLEAN :
             /\ th_delivered' =
                  IF success
                  THEN [th_delivered EXCEPT ![key] = Min2(@ + 1, 2)]
                  ELSE th_delivered
             /\ th_ledger' = IF success /\ written
                             THEN th_ledger \cup {key}
                             ELSE th_ledger
    /\ th_run' = [th_run EXCEPT ![b].pc = "route", ![b].message_id = 0]
    /\ UNCHANGED th_chat
    /\ ThreadsOnly

ThreadsNext ==
    \/ \E b \in ThreadBots : ThreadStart(b)
    \/ \E b \in ThreadBots : ThreadStop(b)
    \/ ThreadArrive
    \/ \E b \in ThreadBots : ThreadPoll(b)
    \/ \E b \in ThreadBots : ThreadRoute(b)
    \/ \E b \in ThreadBots : ThreadHandled(b)

(* ============ LLMService.transcribe_audio, one call ===================== *)
\* max_retries = 3
max_retries == 3

\* retry_delays = [2, 4, 8], seconds
retry_delays == <<2, 4, 8>>

\* Whisper's limit, bytes: 25 * 1024 * 1024
MaxAudioBytes == 25 * 1024 * 1024

\* len(audio_bytes) of the calls made
AudioSizes == {1024, MaxAudioBytes, MaxAudioBytes + 1}

\* permanent_errors = ['invalid', 'unsupported', 'format', 'codec']
permanent_errors == {"invalid", "unsupported", "format", "codec"}

\* an exception of the API, by the words str(e).lower() contains
ErrorWords == permanent_errors \cup {"timeout", "rate limit"}

Errors == SUBSET ErrorWords

IsNeverPermanent(e) == FALSE
\* is_permanent = any(err in error_msg for err in permanent_errors)
is_permanent(e) == e \cap permanent_errors # {}

\* response.text of the API
Transcripts == {<<>>, <<" ">>, <<"a">>, <<" ", "a", " ">>}

\* transcribed_text.strip()
strip(s) == lstrip(rstrip(s))

NoText == [kind |-> "none", text |-> <<>>]

NoTranscribeCall == [pc |-> "idle", size |-> 0, attempt |-> 0, calls |-> 0,
                     errors |-> <<>>, slept |-> <<>>, result |-> NoText]

TranscribeInit == tr_call = NoTranscribeCall

\* transcribe_audio touches nothing but its own frame
TranscribeOnly ==
    /\ NoLifecycle /\ NoSplit /\ NoSched /\ NoThreads
    /\ UNCHANGED <<core_vars, core_hist, ledger_vars, chain_vars, chain_hist>>

\* transcribe_audio(audio_bytes) up to the first attempt: the size check
TranscribeCall ==
    /\ tr_call.pc = "idle"
    /\ \E size \in AudioSizes :
         tr_call' =
           IF size > MaxAudioBytes
           THEN [NoTranscribeCall EXCEPT !.pc = "done", !.size = size]
           ELSE [NoTranscribeCall EXCEPT !.pc = "attempt", !.size = size]
    /\ TranscribeOnly

\* one attempt: client.audio.transcriptions.create returns a response
TranscribeResponse ==
    /\ tr_call.pc = "attempt"
    /\ \E transcribed_text \in Transcripts :
         tr_call' =
           [tr_call EXCEPT
              !.pc = "done",
              !.calls = @ + 1,
              !.result = IF transcribed_text = <<>> THEN NoText
                         ELSE [kind |-> "text",
                               text |-> strip(transcribed_text)]]
    /\ TranscribeOnly

\* one attempt: the API raises; `except Exception as e`
TranscribeError ==
    /\ tr_call.pc = "attempt"
    /\ \E e \in Errors :
         tr_call' =
           IF is_permanent(e)
           THEN [tr_call EXCEPT !.pc = "done", !.calls = @ + 1,
                                !.errors = Append(@, e)]
           ELSE IF tr_call.attempt < max_retries - 1
           THEN [tr_call EXCEPT
                   !.calls = @ + 1,
                   !.errors = Append(@, e),
                   !.slept = Append(@, retry_delays[tr_call.attempt + 1]),
                   !.attempt = @ + 1]
           ELSE [tr_call EXCEPT !.pc = "done", !.calls = @ + 1,
                                !.errors = Append(@, e)]
    /\ TranscribeOnly

TranscribeNext ==
    \/ TranscribeCall
    \/ TranscribeResponse
    \/ TranscribeError

TypeOK ==
    /\ chat \in Seq([id : MsgIds, content : Contents])
    /\ IsABag(processed_messages)
    /\ pc \in [Handlers -> {"idle", "route", "send", "stopped"}]
    /\ is_first_run \in [Handlers -> BOOLEAN]
    /\ should_exit \in [Handlers -> BOOLEAN]
    /\ tick \in [Handlers -> 0..(MaxTicks + 1)]

Init ==
    /\ chat = <<>>
    /\ processed_messages = EmptyBag
    /\ pc = [h \in Handlers |-> "idle"]
    /\ is_first_run = [h \in Handlers |-> TRUE]
    /\ should_exit = [h \in Handlers |-> FALSE]
    /\ messages = [h \in Handlers |-> <<>>]
    /\ fetched = [h \in Handlers |-> <<>>]
    /\ cur = [h \in Handlers |-> NoCur]
    /\ tick = [h \in Handlers |-> 0]
    /\ invoked = [h \in Handlers |-> [id \in MsgIds |-> 0]]
    /\ sends = [h \in Handlers |-> [id \in MsgIds |-> <<>>]]
    /\ handled = [h \in Handlers |-> <<>>]
    /\ message_count = 0
    /\ tick_error = [h \in Handlers |-> 0]
    /\ LedgerInit
    /\ ChainInit
    /\ LifeInit
    /\ SplitInit
    /\ SchedInit
    /\ ThreadsInit
    /\ TranscribeInit

\* a participant posts a message; ids and timestamps grow in arrival order
Arrive ==
    /\ CoreOnly /\ NoTickError
    /\ Len(chat) < MaxMsgs
    /\ \E c \in Contents :
         chat' = Append(chat, [id |-> Len(chat) + 1, content |-> c])
    /\ UNCHANGED <<processed_messages, pc, is_first_run, should_exit,
                   messages, fetched, cur, tick, invoked, sends, handled,
                   message_count>>

\* run(): a tick whose get_messages returned nothing
PollEmpty(h) ==
    /\ CoreOnly /\ NoTickError
    /\ pc[h] = "idle" /\ ~should_exit[h] /\ tick[h] < MaxTicks
    /\ tick' = [tick EXCEPT ![h] = @ + 1]
    /\ fetched' = [fetched EXCEPT ![h] = <<>>]
    /\ handled' = [handled EXCEPT ![h] = <<>>]
    /\ UNCHANGED <<chat, processed_messages, pc, is_first_run, should_exit,
                   messages, cur, invoked, sends, message_count>>

\* run(): the tick that finds is_first_run set and messages to mark
PollFirstRun(h) ==
    /\ CoreOnly
    /\ pc[h] = "idle" /\ ~should_exit[h] /\ tick[h] < MaxTicks
    /\ is_first_run[h]
    /\ \E got \in get_messages(chat) \ {<<>>} :
         LET r == FirstRunMark(processed_messages, got, h, tick[h] + 1)
         IN  /\ fetched' = [fetched EXCEPT ![h] = got]
             /\ processed_messages' = r.table
             /\ is_first_run' = [is_first_run EXCEPT ![h] = r.raised]
             /\ tick_error' = IF r.raised
                              THEN [tick_error EXCEPT ![h] = tick[h] + 1]
                              ELSE tick_error
    /\ tick' = [tick EXCEPT ![h] = @ + 1]
    /\ handled' = [handled EXCEPT ![h] = <<>>]
    /\ UNCHANGED <<chat, pc, should_exit, messages, cur, invoked, sends,
                   message_count>>

\* where run() would be, were the exception of a tick to leave the loop
AfterTickErrorLeave == "stopped"

\* run(): `except Exception` logs, sleeps poll_interval and the while loop
\* goes on
AfterTickError == "idle"

\* run(): get_messages raises (it catches requests' exceptions only: a
\* body that is not the expected JSON object raises past it)
PollError(h) ==
    /\ CoreOnly
    /\ pc[h] = "idle" /\ ~should_exit[h] /\ tick[h] < MaxTicks
    /\ tick' = [tick EXCEPT ![h] = @ + 1]
    /\ tick_error' = [tick_error EXCEPT ![h] = tick[h] + 1]
    /\ fetched' = [fetched EXCEPT ![h] = <<>>]
    /\ handled' = [handled EXCEPT ![h] = <<>>]
    /\ pc' = [pc EXCEPT ![h] = AfterTickError]
    /\ UNCHANGED <<chat, processed_messages, is_first_run, should_exit,
                   messages, cur, invoked, sends, message_count>>

\* run(): should_process_message raises (the ledger lookup has no try); the
\* rest of the fetched list is dropped with the tick
RouteError(h) ==
    /\ CoreOnly
    /\ pc[h] = "route" /\ messages[h] # <<>> /\ ~should_exit[h]
    /\ tick_error' = [tick_error EXCEPT ![h] = tick[h]]
    /\ messages' = [messages EXCEPT ![h] = <<>>]
    /\ pc' = [pc EXCEPT ![h] = AfterTickError]
    /\ UNCHANGED <<chat, processed_messages, is_first_run, should_exit,
                   fetched, cur, tick, invoked, sends, handled,
                   message_count>>

\* the order run() walks the fetched list in, were it not reversed
RouteOrderAsFetched(got) == got

\* run(): messages.reverse()
RouteOrder(got) == Reverse(got)

\* run(): a later tick; the fetched list is reversed and walked
PollRoute(h) ==
    /\ CoreOnly /\ NoTickError
    /\ pc[h] = "idle" /\ ~should_exit[h] /\ tick[h] < MaxTicks
    /\ ~is_first_run[h]
    /\ \E got \in get_messages(chat) \ {<<>>} :
         /\ fetched' = [fetched EXCEPT ![h] = got]
         /\ messages' = [messages EXCEPT ![h] = RouteOrder(got)]
    /\ tick' = [tick EXCEPT ![h] = @ + 1]
    /\ handled' = [handled EXCEPT ![h] = <<>>]
    /\ pc' = [pc EXCEPT ![h] = "route"]
    /\ UNCHANGED <<chat, processed_messages, is_first_run, should_exit,
                   cur, invoked, sends, message_count>>

\* run(): the for loop ends (list walked, or should_exit seen), then sleep
RouteDone(h) ==
    /\ CoreOnly /\ NoTickError
    /\ pc[h] = "route"
    /\ messages[h] = <<>> \/ should_exit[h]
    /\ messages' = [messages EXCEPT ![h] = <<>>]
    /\ pc' = [pc EXCEPT ![h] = "idle"]
    /\ UNCHANGED <<chat, processed_messages, is_first_run, should_exit,
                   fetched, cur, tick, invoked, sends, handled,
                   message_count>>

\* run(): should_process_message(message) is false
RouteSkip(h) ==
    /\ CoreOnly /\ NoTickError
    /\ pc[h] = "route" /\ messages[h] # <<>> /\ ~should_exit[h]
    /\ ~should_process_message(h, Head(messages[h]))
    /\ messages' = [messages EXCEPT ![h] = Tail(@)]
    /\ UNCHANGED <<chat, processed_messages, pc, is_first_run, should_exit,
                   fetched, cur, tick, invoked, sends, handled,
                   message_count>>

\* handle_message() up to the call of process_message:
\* update_message_activity, then process_message(message)
Invoke(h, m) ==
    /\ CoreOnly /\ NoTickError
    /\ pc[h] = "route" /\ messages[h] # <<>> /\ ~should_exit[h]
    /\ m = Head(messages[h])
    /\ should_process_message(h, m)
    /\ message_count' = message_count + 1
    /\ invoked' = [invoked EXCEPT ![h][m.id] = @ + 1]
    /\ sends' = [sends EXCEPT ![h][m.id] = <<>>]
    /\ handled' = [handled EXCEPT ![h] = Append(@, m.id)]
    /\ UNCHANGED <<chat, is_first_run, should_exit, fetched, tick>>

\* handle_message(): process_message raises; `except Exception` logs it
HandleRaise(h) ==
    \E m \in Range(messages[h]) :
        /\ Invoke(h, m)
        /\ messages' = [messages EXCEPT ![h] = Tail(@)]
        /\ UNCHANGED <<processed_messages, pc, cur>>

\* handle_message(): `if not response_text:` records "[no response]"
HandleNone(h) ==
    \E m \in Range(messages[h]) :
        /\ Invoke(h, m)
        /\ processed_messages' =
             mark_processed(processed_messages,
                 Row(m.id, h, "[no response]", "", tick[h])).table
        /\ messages' = [messages EXCEPT ![h] = Tail(@)]
        /\ UNCHANGED <<pc, cur>>

\* handle_message(): a response, cut by split_message into n chunks
HandleText(h) ==
    \E m \in Range(messages[h]), n \in 1..MaxChunks :
        /\ Invoke(h, m)
        /\ cur' = [cur EXCEPT ![h] = [id |-> m.id, n |-> n, i |-> 1]]
        /\ pc' = [pc EXCEPT ![h] = "send"]
        /\ UNCHANGED <<processed_messages, messages>>

\* handle_message(): the record is written whatever the sends returned
MarkAfterSendsAlways(ok, i, n) == TRUE

\* handle_message(): `if success:` after the loop over the chunks
MarkAfterSends(ok, i, n) == ok /\ i = n

\* handle_message(): the loop goes on after a failed send
StopSendingNever(ok, i, n) == i = n

\* handle_message(): `if not success: break`, or the last chunk was sent
StopSending(ok, i, n) == ~ok \/ i = n

\* handle_message(): one whatsapp.send_message of the loop over the chunks
SendChunk(h) ==
    /\ CoreOnly /\ NoTickError
    /\ pc[h] = "send"
    /\ \E ok \in BOOLEAN :
         LET c == cur[h] IN
         /\ sends' = [sends EXCEPT ![h][c.id] =
                        Append(@, [i |-> c.i, n |-> c.n, ok |-> ok])]
         /\ IF StopSending(ok, c.i, c.n)
            THEN /\ pc' = [pc EXCEPT ![h] = "route"]
                 /\ messages' = [messages EXCEPT ![h] = Tail(@)]
                 /\ cur' = [cur EXCEPT ![h] = NoCur]
                 /\ processed_messages' =
                      IF MarkAfterSends(ok, c.i, c.n)
                      THEN mark_processed(processed_messages,
                               Row(c.id, h, "response", "", tick[h])).table
                      ELSE processed_messages
            ELSE /\ cur' = [cur EXCEPT ![h].i = @ + 1]
                 /\ UNCHANGED <<pc, messages, processed_messages>>
    /\ UNCHANGED <<chat, is_first_run, should_exit, fetched, tick, invoked,
                   handled, message_count>>

\* run(), were the `while` never to read should_exit again
ExitNever(h) ==
    /\ pc[h] = "idle" /\ should_exit[h]
    /\ UNCHANGED vars

\* BotBase.stop
Stop(h) ==
    /\ CoreOnly /\ NoTickError
    /\ ~should_exit[h] /\ pc[h] # "stopped"
    /\ should_exit' = [should_exit EXCEPT ![h] = TRUE]
    /\ UNCHANGED <<chat, processed_messages, pc, is_first_run, messages,
                   fetched, cur, tick, invoked, sends, handled,
                   message_count>>

\* run(): `while not self.should_exit` fails
Exit(h) ==
    /\ CoreOnly /\ NoTickError
    /\ pc[h] = "idle" /\ should_exit[h]
    /\ pc' = [pc EXCEPT ![h] = "stopped"]
    /\ UNCHANGED <<chat, processed_messages, is_first_run, should_exit,
                   messages, fetched, cur, tick, invoked, sends, handled,
                   message_count>>

Next ==
    \/ Arrive
    \/ \E h \in Handlers : PollEmpty(h)
    \/ \E h \in Handlers : PollFirstRun(h)
    \/ \E h \in Handlers : PollRoute(h)
    \/ \E h \in Handlers : PollError(h)
    \/ \E h \in Handlers : RouteError(h)
    \/ \E h \in Handlers : RouteDone(h)
    \/ \E h \in Handlers : RouteSkip(h)
    \/ \E h \in Handlers : HandleRaise(h)
    \/ \E h \in Handlers : HandleNone(h)
    \/ \E h \in Handlers : HandleText(h)
    \/ \E h \in Handlers : SendChunk(h)
    \/ \E h \in Handlers : Stop(h)
    \/ \E h \in Handlers : Exit(h)

Spec == Init /\ [][Next]_vars

\* a step of the thread of worker h: the thread runs as long as the calls
\* it makes return
WorkerStep(h) ==
    \/ PollEmpty(h)
    \/ PollFirstRun(h)
    \/ PollRoute(h)
    \/ PollError(h)
    \/ RouteError(h)
    \/ RouteDone(h)
    \/ RouteSkip(h)
    \/ HandleRaise(h)
    \/ HandleNone(h)
    \/ HandleText(h)
    \/ SendChunk(h)
    \/ Exit(h)

SpecFair ==
    Init /\ [][Next]_vars /\ \A h \in Handlers : WF_vars(WorkerStep(h))

SpecLedger == Init /\ [][LedgerNext]_vars

SpecChain == Init /\ [][ChainNext]_vars

SpecLifecycle == Init /\ [][LifeNext]_vars

SpecSplit == Init /\ [][SplitNext]_vars

SpecSched == Init /\ [][SchedNext]_vars

SpecThreads == Init /\ [][ThreadsNext]_vars

SpecTranscribe == Init /\ [][TranscribeNext]_vars

(* ======================= claims on the core worker ====================== *)
RowsOf(h) == {r \in BagToSet(processed_messages) : r.bot_name = h}

\* C1: once the ledger holds a record for (m, h), no step of the worker
\* calls process_message on m or sends a reply to m for h again.
C1_NoRehandleOnceRecorded ==
    [][\A h \in Handlers, id \in MsgIds :
          is_processed(processed_messages, id, h) =>
              /\ invoked'[h][id] = invoked[h][id]
              /\ sends'[h][id] = sends[h][id]]_vars

\* a message answered in an earlier tick was fetched again and walked past
C1_Witness ==
    \E h \in Handlers : \E r \in RowsOf(h) :
        /\ r.response_text = "response"
        /\ r.processed_at < tick[h]
        /\ r.message_id \in Ids(fetched[h])
        /\ pc[h] = "idle" /\ messages[h] = <<>>
        /\ invoked[h][r.message_id] = 1

\* C4: after the first poll of a worker, if it fetched k >= 1 messages, all
\* k are in the ledger as skipped at startup, process_message was never
\* called and nothing was sent.
C4_ColdStartSuppression ==
    \A h \in Handlers :
        (tick[h] = 1 /\ fetched[h] # <<>>) =>
            /\ \A id \in Ids(fetched[h]) :
                 \E r \in RowsOf(h) :
                    /\ r.message_id = id
                    /\ r.response_text = "[skipped - startup]"
            /\ \A id \in MsgIds : invoked[h][id] = 0 /\ sends[h][id] = <<>>
            /\ handled[h] = <<>>

C4_Witness ==
    \E h \in Handlers :
        /\ tick[h] = 1 /\ Len(fetched[h]) >= 2
        /\ \A id \in Ids(fetched[h]) : is_processed(processed_messages, id, h)

\* C5: cold-start suppression happens on the first tick only: no record is
\* written as skipped at startup on a later tick.
C5_ColdStartFirstTickOnly ==
    \A h \in Handlers : \A r \in RowsOf(h) :
        r.metadata = "startup" => r.processed_at = 1

\* C6: when the gateway returned the messages newest first, the messages
\* handled in the tick are handled in ascending timestamp order, and a send
\* in progress belongs to the message handled last.
C6_NewestFirstRoutedAscending ==
    \A h \in Handlers :
        NewestFirst(fetched[h]) =>
            /\ Ascending(handled[h])
            /\ pc[h] = "send" =>
                 (handled[h] # <<>> /\ cur[h].id = handled[h][Len(handled[h])])

\* two messages handled in one tick, the older one answered first
C6_Witness ==
    \E h \in Handlers :
        /\ NewestFirst(fetched[h]) /\ Len(fetched[h]) >= 2
        /\ Len(handled[h]) >= 2
        /\ sends[h][handled[h][1]] # <<>>
        /\ pc[h] = "send"

\* C7: the messages handled in a tick are handled oldest first whatever the
\* order the gateway returned them in.
C7_AnyOrderRoutedAscending ==
    \A h \in Handlers : Ascending(handled[h])

AllSent(s) ==
    /\ s # <<>>
    /\ \A k \in 1..Len(s) : s[k].i = k /\ s[k].n = Len(s) /\ s[k].ok

\* C8: a ledger record carrying a response for (m, h) exists only when every
\* chunk of that response was sent successfully; the chunks of a response
\* are sent in index order 1..n, each after the one before succeeded.
C8_RecordOnlyAfterAllChunks ==
    /\ \A h \in Handlers : \A r \in RowsOf(h) :
          r.response_text = "response" => AllSent(sends[h][r.message_id])
    /\ \A h \in Handlers, id \in MsgIds :
          \A k \in 1..Len(sends[h][id]) :
              /\ sends[h][id][k].i = k
              /\ k < Len(sends[h][id]) => sends[h][id][k].ok

C8_Witness ==
    \E h \in Handlers : \E r \in RowsOf(h) :
        /\ r.response_text = "response"
        /\ Len(sends[h][r.message_id]) >= 2

EndsFailed(s) == s # <<>> /\ ~s[Len(s)].ok

LastFailed(h, id) == EndsFailed(sends[h][id])

\* C9: after the send of chunk i failed, no further chunk of that response
\* is sent and no ledger record exists for (m, h); the worker goes on with
\* its loop, and when it comes to m again on a later poll it handles m again
\* (unless that tick ends in an exception before).
C9_SendFailureNoRecordAndRetry ==
    /\ [](\A h \in Handlers, id \in MsgIds :
            LastFailed(h, id) =>
               /\ \A k \in 1..(Len(sends[h][id]) - 1) : sends[h][id][k].ok
               /\ ~is_processed(processed_messages, id, h)
               /\ cur[h].id # id)
    /\ [][\A h \in Handlers :
            (/\ pc[h] = "send"
             /\ sends'[h][cur[h].id] # sends[h][cur[h].id]
             /\ EndsFailed(sends'[h][cur[h].id]))
            => (pc'[h] = "route" /\ messages'[h] = Tail(messages[h])
                /\ processed_messages' = processed_messages)]_vars
    /\ [][\A h \in Handlers :
            (/\ pc[h] = "route" /\ messages[h] # <<>> /\ ~should_exit[h]
             /\ LastFailed(h, Head(messages[h]).id)
             /\ tick_error'[h] = tick_error[h]
             /\ <<pc[h], messages[h]>> # <<pc'[h], messages'[h]>>)
            => invoked'[h][Head(messages[h]).id] =
                   invoked[h][Head(messages[h]).id] + 1]_vars

\* chunk 1 of 2 failed in an earlier tick and the worker is at m again
C9_Witness ==
    \E h \in Handlers :
        /\ pc[h] = "route" /\ messages[h] # <<>> /\ ~should_exit[h]
        /\ LastFailed(h, Head(messages[h]).id)
        /\ Len(sends[h][Head(messages[h]).id]) = 1
        /\ sends[h][Head(messages[h]).id][1].n >= 2
        /\ handled[h] = <<>>

\* C20: a tick that ends in an exception leaves the worker in its loop,
\* waiting for the next poll, and the worker leaves the loop only once stop()
\* was signalled
C20_TickErrorKeepsLoop ==
    [][\A h \in Handlers :
          /\ tick_error'[h] # tick_error[h] => pc'[h] = "idle"
          /\ pc'[h] = "stopped" => should_exit[h]]_vars

\* after a tick that raised, a later tick hands a message to the handler
C20_Witness ==
    \E h \in Handlers :
        /\ tick_error[h] # 0 /\ tick[h] > tick_error[h]
        /\ handled[h] # <<>> /\ ~should_exit[h]

(* ========================= claims on the ledger ========================= *)
RowsFor(id, h) ==
    {r \in BagToSet(processed_messages) :
        r.message_id = id /\ r.bot_name = h}

\* C2: after any sequence of mark_processed calls by any callers the ledger
\* holds at most one row per (message_id, bot_name), and is_processed(m, h)
\* is true exactly from the first mark_processed(m, h) on.
C2_OneRecordPerKey ==
    /\ \A id \in LedgerIds, h \in LedgerBots :
          /\ Cardinality(RowsFor(id, h)) <= 1
          /\ \A r \in RowsFor(id, h) : CopiesIn(r, processed_messages) = 1
          /\ is_processed(processed_messages, id, h)
                <=> <<id, h>> \in ledger_marked
    /\ ledger_call.op = "is_processed" =>
          (ledger_call.result
              <=> <<ledger_call.message_id, ledger_call.bot_name>>
                     \in ledger_marked)

\* a second mark_processed for a key, with two keys in the ledger
C2_Witness ==
    /\ ledger_call.op = "mark_processed" /\ ledger_call.raised
    /\ Cardinality(ledger_marked) >= 2

\* C3: mark_processed on a key that already has a record returns normally:
\* no call of mark_processed raises.
C3_MarkProcessedIdempotent ==
    ledger_call.op = "mark_processed" => ~ledger_call.raised

\* C13: the ledger is keyed per handler: a mark_processed(m, h) changes
\* is_processed for no other key, (m, h2) of the same message included, and
\* on a key without a record it returns normally and leaves a record of its
\* own, whatever other handlers recorded for m
C13_LedgerKeyedPerHandler ==
    [][ledger_call'.op = "mark_processed" =>
         LET m == ledger_call'.message_id
             h == ledger_call'.bot_name
         IN  /\ \A id \in LedgerIds, h2 \in LedgerBots :
                   <<id, h2>> # <<m, h>> =>
                     (is_processed(processed_messages', id, h2)
                         <=> is_processed(processed_messages, id, h2))
             /\ ~is_processed(processed_messages, m, h) =>
                   /\ ~ledger_call'.raised
                   /\ is_processed(processed_messages', m, h)]_vars

\* one message recorded by both handlers, the second record just written
C13_Witness ==
    /\ ledger_call.op = "mark_processed" /\ ~ledger_call.raised
    /\ \E h2 \in LedgerBots \ {ledger_call.bot_name} :
          RowsFor(ledger_call.message_id, h2) # {}
    /\ RowsFor(ledger_call.message_id, ledger_call.bot_name) # {}

(* ==================== claims on the backend processor =================== *)
EventBots == [k \in 1..Len(mp_events) |-> mp_events[k].bot]

\* C10: when a bot of the chain raised on a message, every bot after it in
\* priority order has been run on that message or is still to be run, and
\* none is left out when the chain ends (each turn of a bot includes the send
\* of its response).
C10_RaiseDoesNotStopChain ==
    mp_cur # 0 =>
        /\ mp_pc = "chain" =>
              EventBots \o mp_chain = get_bots_for_chat(chat_bots)
        /\ mp_pc # "chain" => EventBots = get_bots_for_chat(chat_bots)

\* the first bot raised, the second answered and its response was sent
C10_Witness ==
    /\ Len(mp_events) >= 2
    /\ mp_events[1].ev = "raise"
    /\ mp_events[2].ev = "sent"
    /\ mp_pc = "walk"

\* C11: the handlers invoked for one message are enabled assignments of the
\* conversation, taken in ascending priority, each at most once, every turn
\* (invocation and send) finished before the next one is entered; a chain
\* that ran to its end has invoked every enabled assignment
C11_ChainInPriorityOrder ==
    /\ \A i, j \in 1..Len(mp_events) :
          i < j => chat_bots[mp_events[i].bot].priority
                     < chat_bots[mp_events[j].bot].priority
    /\ \A i \in 1..Len(mp_events) : chat_bots[mp_events[i].bot].enabled
    /\ mp_pc = "chain" =>
          EventBots \o mp_chain = get_bots_for_chat(chat_bots)

\* two handlers whose priorities run against their ids both answered
C11_Witness ==
    /\ mp_pc = "chain" /\ mp_chain = <<>>
    /\ Len(mp_events) = 2
    /\ mp_events[1].bot > mp_events[2].bot
    /\ mp_events[1].ev = "sent" /\ mp_events[2].ev = "sent"

\* C12: a message routed with no assignment, or routed without any response
\* being sent, is recorded by that first routing and never goes to the bots
\* a second time: no routing (the step that leaves a state in which the
\* message at hand is routable) is of a message of mp_quiet
C12_QuietMessageRoutedOnce ==
    [][(MpRoutable /\ <<mp_pc, mp_messages>>' # <<mp_pc, mp_messages>>)
          => Head(mp_messages).id \notin mp_quiet]_vars

(* ==================== claims on the lifecycle manager =================== *)
\* C14: at any time at most one thread is inside the poll loop for a
\* (handler, conversation) pair, over every interleaving of start_bot and
\* stop_bot, a stop whose join timed out followed by a start included
C14_OneWorkerPerPair ==
    \A key \in Keys : Workers(key) <= 1

\* C15: start_bot on a pair that is live returns success, starts no thread
\* and leaves the live maps, the start time and the persisted running flags
\* as they were
C15_StartOnLivePairNoOp ==
    [][\A key \in Keys :
          (/\ lm_call'.n # lm_call.n
           /\ lm_call'.op = "start_bot" /\ lm_call'.key = key
           /\ key \in bots)
          => /\ lm_call'.result
             /\ bots' = bots /\ bot_threads' = bot_threads
             /\ bot_start_times' = bot_start_times
             /\ running' = running
             /\ left_threads' = left_threads]_vars

\* start_bot was called on a pair that had been started before the clock
\* last moved
C15_Witness ==
    /\ lm_call.op = "start_bot" /\ lm_call.result
    /\ lm_call.key \in bots
    /\ bot_start_times[lm_call.key] < lm_call.at

C17_ShutdownKeepsFlagsStopClears ==
    [][/\ (lm_call'.n # lm_call.n /\ lm_call'.op = "stop_all") =>
            (bots' = {} /\ bot_threads' = {} /\ running' = running)
       /\ (/\ lm_call'.n # lm_call.n
           /\ lm_call'.op = "stop_bot" /\ lm_call'.update_db)
          => ~running'[lm_call'.key]]_vars

C19_BootAttemptsEveryPair ==
    lm_call.op = "start_running_bots" =>
        /\ Range(lm_call.attempted) =
              {key \in Keys : /\ running[key] /\ key[1] \in bot_classes
                              /\ key[2] \in chats}
        /\ bots = Range(lm_call.attempted) \ lm_call.failed

\* a start failed and a later one of the same boot succeeded
C19_Witness ==
    /\ lm_call.op = "start_running_bots"
    /\ \E i, j \in 1..Len(lm_call.attempted) :
          /\ i < j
          /\ lm_call.attempted[i] \in lm_call.failed
          /\ lm_call.attempted[j] \in bots

(* ==================== the chunker: claims, checked on SpecSplit ========== *)
\* C21: every chunk split_message returns, prefix and pagination token
\* included, is at most the limit long
C21_ChunksWithinLimit ==
    split_call.pc = "done" =>
        \A i \in 1..Len(split_call.chunks) :
            Len(split_call.chunks[i]) <= split_call.limit

NotSpace(c) == ~IsSpace(c)

\* the characters of s that are not whitespace, in order
NonSpace(s) == SelectSeq(s, NotSpace)

IsDigit(c) == c \in {"0", "1", "2", "3", "4", "5", "6", "7", "8", "9"}

RECURSIVE DropDigits(_)
DropDigits(s) == IF s # <<>> /\ IsDigit(Head(s)) THEN DropDigits(Tail(s)) ELSE s

\* a returned chunk without its prefix and, when there is more than one
\* chunk, without its "i/n " token, read off the chunk itself
Content(chunk, prefix, n) ==
    LET body == SubSeq(chunk, Len(prefix) + 2, Len(chunk))
    IN  IF n = 1 THEN body
        ELSE Tail(DropDigits(Tail(DropDigits(body))))

RECURSIVE Join(_, _, _)
\* parts[lo] \o ... \o parts[hi]
Join(parts, lo, hi) ==
    IF lo > hi THEN <<>>
    ELSE IF lo = hi THEN parts[lo]
    ELSE Join(parts, lo, (lo + hi) \div 2)
            \o Join(parts, (lo + hi) \div 2 + 1, hi)

\* the content parts of the returned chunks, concatenated in order
Joined ==
    Join([i \in 1..Len(split_call.chunks) |->
            Content(split_call.chunks[i], split_call.prefix,
                    Len(split_call.chunks))],
         1, Len(split_call.chunks))

\* C22: the content parts of the returned chunks, concatenated in order,
\* have the non-whitespace characters of the text, each once and in the
\* order of the text; what is missing is whitespace
C22_NoCharacterLost ==
    split_call.pc = "done" =>
        /\ NonSpace(Joined) = NonSpace(split_call.text)
        /\ Len(Joined) <= Len(split_call.text)

\* a text returned in several chunks, with whitespace removed at a cut
C22_Witness ==
    /\ split_call.pc = "done"
    /\ Len(split_call.chunks) > 1
    /\ NonSpace(split_call.text) # <<>>
    /\ Len(Joined) < Len(split_call.text)

\* C23: split_message terminates and returns at least one chunk, for every
\* text, prefix and limit
C23_AlwaysReturnsAChunk ==
    /\ split_call.pc # "hang"
    /\ split_call.pc = "done" => Len(split_call.chunks) >= 1

\* len(text) <= max_content_length of the recorded call
Fits == Len(split_call.text) <= MaxContent(split_call.prefix, split_call.limit)

\* chunk begins with head
StartsWith(chunk, head) ==
    /\ Len(chunk) >= Len(head)
    /\ SubSeq(chunk, 1, Len(head)) = head

\* chunk i of n begins with "{P} {i}/{n} ", for every i in 1..n
AllPaginated ==
    \A i \in 1..Len(split_call.chunks) :
        StartsWith(split_call.chunks[i],
                   Header(split_call.prefix, i, Len(split_call.chunks)))

\* "[ai] 1/2 Hello world." and "[ai] 2/2 Goodbye."
HelloGoodbyeChunks ==
    << <<"[", "a", "i", "]", " ", "1", "/", "2", " ",
         "H", "e", "l", "l", "o", " ", "w", "o", "r", "l", "d", ".">>,
       <<"[", "a", "i", "]", " ", "2", "/", "2", " ",
         "G", "o", "o", "d", "b", "y", "e", ".">> >>

\* the call of the scenario: "Hello world. Goodbye.", "[ai]", L = 30
IsScenario ==
    /\ split_call.text = HelloGoodbye
    /\ split_call.prefix = AiPrefix
    /\ split_call.limit = 30

\* C24 as stated: a text that fits comes back as the one chunk "{P} {text}";
\* every other text comes back with chunk i of n prefixed "{P} {i}/{n} ";
\* the scenario yields "[ai] 1/2 Hello world." and "[ai] 2/2 Goodbye."
C24_TokenUnlessTextFits ==
    split_call.pc = "done" =>
        /\ Fits => split_call.chunks =
                      <<split_call.prefix \o <<" ">> \o split_call.text>>
        /\ ~Fits => AllPaginated
        /\ IsScenario => split_call.chunks = HelloGoodbyeChunks

\* C24, amended: a text that fits comes back as the one chunk "{P} {text}";
\* a text that does not fit and is cut into more than one chunk comes back
\* with chunk i of n prefixed "{P} {i}/{n} "; a text that does not fit and
\* leaves a single chunk (only its trailing whitespace is over the window)
\* comes back as "{P} {text without trailing whitespace}", with no token;
\* the scenario yields "[ai] 1/2 Hello world." and "[ai] 2/2 Goodbye."
C24_TokenWhenSeveralChunks ==
    split_call.pc = "done" =>
        /\ Fits => split_call.chunks =
                      <<split_call.prefix \o <<" ">> \o split_call.text>>
        /\ (~Fits /\ Len(split_call.chunks) > 1) => AllPaginated
        /\ (~Fits /\ Len(split_call.chunks) = 1) =>
              split_call.chunks =
                <<split_call.prefix \o <<" ">> \o rstrip(split_call.text)>>
        /\ IsScenario => split_call.chunks = HelloGoodbyeChunks

\* the scenario has returned its two chunks
C24_Witness ==
    /\ split_call.pc = "done"
    /\ IsScenario
    /\ ~Fits
    /\ Len(split_call.chunks) = 2

(* ==================== the scheduler: claims, checked on SpecSched ======== *)
\* the runs of send_scheduled_message for job j
Fires(j) == {g \in sc_gateway : g.job = j}

\* C25: a ONCE job fires exactly once and is disabled after firing, a job
\* whose run date was already past when it was loaded at boot included: it
\* has fired at most once, it is disabled once it has fired, and while it
\* has not fired (it is still enabled) it is waiting in the timer engine
C25_OnceFiresOnceThenDisabled ==
    \A j \in JobIds :
        (sc_jobs[j].present /\ sc_jobs[j].kind = ONCE) =>
            /\ Cardinality(Fires(j)) <= 1
            /\ Fires(j) # {} => ~sc_jobs[j].enabled
            /\ (sc_boots > 0 /\ sc_jobs[j].enabled /\ sc_jobs[j].expr.valid)
                  => sc_timers[j].registered

\* the time of the latest run of job j, NoTime if it has not run
LastFire(j) ==
    IF Fires(j) = {} THEN NoTime
    ELSE CHOOSE t \in {g.at : g \in Fires(j)} :
            \A g \in Fires(j) : g.at <= t

\* C26: after a CRON job has fired, the job record has last_run_at set to
\* the time of the fire and a next-run timestamp later than it
C26_CronRecordsNextRun ==
    \A j \in JobIds :
        (sc_jobs[j].present /\ sc_jobs[j].kind = CRON /\ Fires(j) # {}) =>
            /\ sc_jobs[j].last_run_at = LastFire(j)
            /\ sc_jobs[j].next_run_at > LastFire(j)

\* C27: a step that fires a scheduled job calls send_message at the gateway
\* for that job, calls no bot and writes no row of the dedup ledger
C27_FireBypassesHandlers ==
    [][\A j \in JobIds :
          (sc_jobs'[j].last_run_at # sc_jobs[j].last_run_at
             \/ sc_gateway' # sc_gateway)
          => /\ \E g \in sc_gateway' \ sc_gateway :
                   sc_gateway' = sc_gateway \cup {g}
                   /\ g.at = sc_now
                   /\ sc_timers[g.job].registered
             /\ mp_events' = mp_events
             /\ mp_table' = mp_table
             /\ mp_pending' = mp_pending
             /\ invoked' = invoked
             /\ processed_messages' = processed_messages]_vars

\* a scheduled message went out through the gateway
C27_Witness ==
    \E g \in sc_gateway :
        /\ g.sent
        /\ sc_jobs[g.job].last_run_at = g.at

\* the record of job j and the timer engine agree: the job is registered
\* exactly when it is persisted and enabled, with the trigger of its
\* expression
Agree(rows, timers, j) ==
    /\ timers[j].registered <=> (rows[j].present /\ rows[j].enabled)
    /\ timers[j].registered =>
          /\ timers[j].kind = rows[j].kind
          /\ rows[j].kind = ONCE => timers[j].next = rows[j].expr.at

\* C28: a create, update or delete of a scheduled job through the schedule
\* API (on an existing conversation or job, with an expression that parses)
\* completes, and when it has completed the persisted record and the timer
\* registry agree
C28_MutationsKeepRegistryInStep ==
    [][(sc_call' # sc_call
          /\ sc_call'.op \in {"create", "update", "delete"}
          /\ sc_call'.found /\ sc_call'.expr_valid)
       => /\ sc_call'.ok
          /\ Agree(sc_jobs', sc_timers', sc_call'.job)]_vars

\* C29: a create request with a malformed schedule expression is rejected
\* and leaves no persisted job, whether the job is to be enabled or not
C29_MalformedExpressionRejected ==
    [][(sc_call' # sc_call
          /\ sc_call'.op = "create"
          /\ ~sc_call'.expr_valid)
       => /\ ~sc_call'.ok
          /\ ~sc_jobs'[sc_call'.job].present]_vars

(* ==================== the backend processor after startup, on SpecChain == *)
\* C30: the first poll MessageProcessor makes after lifespan's start() and
\* mark_initialization_complete() applies cold-start suppression: nothing
\* it fetched is left to walk, no message goes to a bot and none is answered
C30_FirstPollSuppressed ==
    mp_polls = 1 =>
        /\ mp_messages = <<>>
        /\ mp_pc # "chain"
        /\ mp_routed = {}
        /\ mp_events = <<>>

\* C31: a message whose only response failed to send (no handler of its
\* chain got a response out) is not recorded as processed when its chain
\* has ended, so that a later poll routes it again
C31_FailedSendLeavesMessageUnrecorded ==
    (/\ mp_pc # "chain"
     /\ ~mp_broken
     /\ \E k \in 1..Len(mp_events) : mp_events[k].ev = "send_failed"
     /\ \A k \in 1..Len(mp_events) : mp_events[k].ev # "sent")
    => ~mp_is_processed(mp_cur)

\* C32: every handler of the chain whose response was sent has a ledger
\* record for the message and that handler, holding the response
C32_EveryResponderRecorded ==
    \A k \in 1..Len(mp_events) :
        mp_events[k].ev = "sent" =>
            MpRow(mp_cur, mp_events[k].bot, "response")
                \in BagToSet(SessionRows)

(* ==================== the two threads, on SpecThreads ==================== *)
\* C33: two handlers of the same conversation are never inside
\* handle_message on the same message at the same time
C33_NoOverlapOnOneMessage ==
    \A a \in ThreadBots, b \in ThreadBots :
        (a # b /\ th_run[a].pc = "handle" /\ th_run[b].pc = "handle")
        => th_run[a].message_id # th_run[b].message_id

(* ==================== the cut of the chunker, on SpecSplit =============== *)
\* the cut the windows of the final SentenceWindow and WordWindow characters
\* of remaining[:M] give: after the last sentence end among the final
\* SentenceWindow characters, else after the last space among the final
\* WordWindow characters, else at M (python indices)
WindowPos(remaining, M) ==
    LET sentence == {i \in Max2(0, M - SentenceWindow)..(M - 1) :
                        remaining[i + 1] \in Terminals}
        word == {i \in Max2(0, M - WordWindow)..(M - 1) :
                    remaining[i + 1] = " "}
    IN  IF sentence # {} THEN Largest(sentence) + 1
        ELSE IF word # {} THEN Largest(word) + 1
        ELSE M

\* C34: a turn of the loop that must split cuts the window right after the
\* last sentence end within its final 200 characters, else right after the
\* last space within its final 100 characters, else at the window boundary
C34_CutsAtLastBoundaryInWindow ==
    [][LET remaining == split_call.remaining
           M == MaxContent(split_call.prefix, split_call.limit)
       IN  (split_call.pc = "loop" /\ Len(remaining) > M) =>
             /\ split_call'.chunks[Len(split_call'.chunks)] =
                   rstrip(Upto(remaining, WindowPos(remaining, M)))
             /\ split_call'.remaining =
                   lstrip(From(remaining, WindowPos(remaining, M)))]_vars

(* ============ transcribe_audio: claims, checked on SpecTranscribe ======== *)
\* a failure that a retry cannot cure: an invalid or unsupported format
PermanentFailure(e) ==
    \E w \in {"invalid", "unsupported", "format", "codec"} : w \in e

TransientBefore(k) ==
    \A i \in 1..k : ~PermanentFailure(tr_call.errors[i])

\* C35 as stated: a call makes at most 3 attempts and waits 2 s, 4 s and 8 s
\* after its first, second and third transient failure
C35_WaitsAfterEveryTransientFailure ==
    /\ tr_call.calls <= 3
    /\ \A k \in 1..Len(tr_call.errors) :
          TransientBefore(k) =>
             /\ Len(tr_call.slept) >= k
             /\ tr_call.slept[k] = <<2, 4, 8>>[k]

\* C35: a call makes at most 3 attempts; it waits 2 s after a transient
\* first failure and 4 s after a transient second one, and not after the
\* third; a permanent failure is the last attempt of its call; the call
\* returns a text, or null after a failure, an empty transcription or an
\* oversized input
C35_ThreeAttemptsTwoWaits ==
    /\ tr_call.calls <= 3
    /\ tr_call.calls <= Len(tr_call.errors) + 1
    /\ \A k \in 1..Len(tr_call.errors) :
          /\ (TransientBefore(k) /\ k < 3) =>
                /\ Len(tr_call.slept) >= k
                /\ tr_call.slept[k] = <<2, 4>>[k]
          /\ PermanentFailure(tr_call.errors[k]) =>
                /\ k = Len(tr_call.errors)
                /\ tr_call.pc = "done"
                /\ Len(tr_call.slept) = k - 1
    /\ Len(tr_call.slept) <= 2
    /\ Len(tr_call.errors) = 3 => tr_call.pc = "done"
    /\ tr_call.pc = "done" =>
          /\ tr_call.result.kind \in {"none", "text"}
          /\ tr_call.calls = Len(tr_call.errors) =>
                tr_call.result = NoText
          /\ tr_call.result.kind = "text" =>
                /\ tr_call.calls = Len(tr_call.errors) + 1
                /\ tr_call.result.text \in {strip(t) : t \in Transcripts}

\* a call that failed three times, each time transiently, and returned null
C35_Witness ==
    /\ tr_call.pc = "done"
    /\ tr_call.calls = 3
    /\ Len(tr_call.errors) = 3
    /\ TransientBefore(3)
    /\ tr_call.slept = <<2, 4>>
    /\ tr_call.result = NoText

\* C36: the complete response to a message is delivered at most once per
\* handler, whatever polls, send failures, ledger-write failures and stops
\* and starts of the worker happen
C36_CompleteResponseAtMostOnce ==
    \A k \in ThreadKeys : th_delivered[k] <= 1

(* ============ the persisted flags, checked on SpecLifecycle ============== *)
FlagsMirrorLiveMap == \A key \in Keys : running[key] <=> key \in bots

\* C37: a start_bot, or a stop_bot with update_db = True, that returns
\* success in a state where the persisted running flag of every pair equals
\* its membership in the live-worker map leaves them equal
C37_StartStopKeepFlagsInStep ==
    [][(/\ FlagsMirrorLiveMap
        /\ lm_call'.n # lm_call.n
        /\ lm_call'.op \in {"start_bot", "stop_bot"}
        /\ lm_call'.op = "stop_bot" => lm_call'.update_db
        /\ lm_call'.result)
       => FlagsMirrorLiveMap']_vars

(* ============ the worker after stop(), checked on SpecFair =============== *)
\* C38: once stop() was signalled the worker polls no more and hands no
\* further message to the handler, the sends of the message in hand go on
\* until the last chunk or a failed send, and the worker leaves its loop
C38_StopEndsTheLoop ==
    /\ \A h \in Handlers : should_exit[h] ~> pc[h] = "stopped"
    /\ [][\A h \in Handlers :
            should_exit[h] =>
               /\ invoked'[h] = invoked[h]
               /\ tick'[h] = tick[h]
               /\ (pc[h] = "send" /\ pc'[h] # "send") =>
                     LET s == sends'[h][cur[h].id]
                     IN  /\ Len(s) = Len(sends[h][cur[h].id]) + 1
                         /\ ~s[Len(s)].ok \/ s[Len(s)].i = s[Len(s)].n]_vars

\* a worker stopped while it sent the first of two chunks: it sent the
\* second, left the next fetched message alone and ended
C38_Witness ==
    \E h \in Handlers :
        /\ pc[h] = "stopped"
        /\ handled[h] # <<>>
        /\ \E id \in Range(handled[h]) :
              /\ Len(sends[h][id]) = 2
              /\ sends[h][id][2].ok
        /\ \E m \in Range(fetched[h]) :
              /\ m.id \notin Range(handled[h])
              /\ should_process_message(h, m)

(* ============ replies as inbound messages, checked on SpecSplit ========== *)
\* C39: every chunk split_message returns for a handler's prefix is a text
\* should_process_message rejects, so that a reply in the conversation is
\* never handed to a handler
C39_RepliesAreRejected ==
    split_call.pc = "done" =>
        \A i \in 1..Len(split_call.chunks) :
            /\ split_call.chunks[i] # <<>>
            /\ ~should_process_text(split_call.chunks[i])

\* a reply of the joke handler in two chunks, "[joke] 1/2 ..." the first
C39_Witness ==
    /\ split_call.pc = "done"
    /\ split_call.prefix = JokePrefix
    /\ Len(split_call.chunks) = 2
    /\ StartsWith(split_call.chunks[1], Header(JokePrefix, 1, 2))

====
